---- MODULE Spec2Model ----
(***************************************************************************)
(* A model of the NRCS NAIP scraper (src/src/nrcs_naip_scraper):           *)
(*   - utils.py: validate_state_abbreviation, extract_folders,             *)
(*     extract_files, get_page_count, create_directory;                    *)
(*   - scraper.py: download_state_data, _download_all_files_in_folder and  *)
(*     the bulk operations;                                                *)
(*   - cli.py: main.                                                       *)
(* Python strings are sequences of one-character strings, so that upper(), *)
(* lower(), replace(), endswith() and the substring test are computed and  *)
(* not assumed.                                                            *)
(***************************************************************************)
EXTENDS Integers, Sequences, FiniteSets, TLC

(***************************************************************************)
(* Strings                                                                 *)
(***************************************************************************)
LowerChars == <<"a", "b", "c", "d", "e", "f", "g", "h", "i", "j", "k", "l", "m", "n", "o", "p", "q", "r", "s", "t", "u", "v", "w", "x", "y", "z">>

UpperChars == <<"A", "B", "C", "D", "E", "F", "G", "H", "I", "J", "K", "L", "M", "N", "O", "P", "Q", "R", "S", "T", "U", "V", "W", "X", "Y", "Z">>

IndexIn(c, s) == IF \E k \in 1..Len(s) : s[k] = c
                 THEN CHOOSE k \in 1..Len(s) : s[k] = c
                 ELSE 0

\* str.upper(), one character
UpperChar(c) == IF IndexIn(c, LowerChars) > 0 THEN UpperChars[IndexIn(c, LowerChars)] ELSE c

\* str.lower(), one character
LowerChar(c) == IF IndexIn(c, UpperChars) > 0 THEN LowerChars[IndexIn(c, UpperChars)] ELSE c

\* str.upper()
Upper(s) == [k \in 1..Len(s) |-> UpperChar(s[k])]

\* str.lower()
Lower(s) == [k \in 1..Len(s) |-> LowerChar(s[k])]

\* s[a:b] with 1-based inclusive bounds
Slice(s, a, b) == IF b < a THEN <<>> ELSE SubSeq(s, a, b)

\* s.startswith(p)
StartsWith(s, p) == Len(p) <= Len(s) /\ Slice(s, 1, Len(p)) = p

\* s.endswith(p)
EndsWith(s, p) == Len(p) <= Len(s) /\ Slice(s, Len(s) - Len(p) + 1, Len(s)) = p

\* `sub in s`
Contains(s, sub) == \E k \in 1..(Len(s) - Len(sub) + 1) : Slice(s, k, k + Len(sub) - 1) = sub

\* s.replace(old, ''): every non-overlapping occurrence, left to right
RECURSIVE Remove(_, _)
Remove(s, old) ==
    IF Len(s) < Len(old) \/ Len(old) = 0 THEN s
    ELSE IF StartsWith(s, old) THEN Remove(Slice(s, Len(old) + 1, Len(s)), old)
    ELSE <<Head(s)>> \o Remove(Tail(s), old)

\* os.path.join(a, b) for a relative b
JoinPath(a, b) == a \o <<"/">> \o b

\* Python's None, kept apart from every string
None == <<"<None>">>

(***************************************************************************)
(* utils.py                                                                *)
(***************************************************************************)
valid_states == {
    <<"A","L">>, <<"A","K">>, <<"A","Z">>, <<"A","R">>, <<"C","A">>, <<"C","O">>, <<"C","T">>, <<"D","E">>, <<"F","L">>, <<"G","A">>,
    <<"H","I">>, <<"I","D">>, <<"I","L">>, <<"I","N">>, <<"I","A">>, <<"K","S">>, <<"K","Y">>, <<"L","A">>, <<"M","E">>, <<"M","D">>,
    <<"M","A">>, <<"M","I">>, <<"M","N">>, <<"M","S">>, <<"M","O">>, <<"M","T">>, <<"N","E">>, <<"N","V">>, <<"N","H">>, <<"N","J">>,
    <<"N","M">>, <<"N","Y">>, <<"N","C">>, <<"N","D">>, <<"O","H">>, <<"O","K">>, <<"O","R">>, <<"P","A">>, <<"R","I">>, <<"S","C">>,
    <<"S","D">>, <<"T","N">>, <<"T","X">>, <<"U","T">>, <<"V","T">>, <<"V","A">>, <<"W","A">>, <<"W","V">>, <<"W","I">>, <<"W","Y">>
}

\* a plausible slip: the validated form is never used
validate_state_abbreviation_asis(state) == IF state = <<>> THEN None ELSE state

validate_state_abbreviation(state) ==
    IF state = <<>> THEN None
    ELSE IF Upper(state) \in valid_states THEN Upper(state)
    ELSE state

\* one item of a listing: the keys the code reads
Folder(id, name, n) == [type |-> "folder", id |-> id, name |-> name, filesCount |-> n]

File(id, name) == [type |-> "file", id |-> id, name |-> name, filesCount |-> 0]

extract_all(data) == data.shared_folder.items

extract_folders(data) == SelectSeq(data.shared_folder.items, LAMBDA it : it.type = "folder")

extract_files(data) == SelectSeq(data.shared_folder.items, LAMBDA it : it.type = "file")

get_page_count(data) == data.shared_folder.pageCount

\* next((x for x in seq if P(x)), None)
NoItem == [type |-> "none", id |-> "none", name |-> None, filesCount |-> 0]

FirstMatch(seq, P(_)) ==
    IF \E k \in 1..Len(seq) : P(seq[k])
    THEN seq[CHOOSE k \in 1..Len(seq) : P(seq[k]) /\ \A j \in 1..(k - 1) : ~P(seq[j])]
    ELSE NoItem

\* str(year) of a non-negative int
Digits == <<"0", "1", "2", "3", "4", "5", "6", "7", "8", "9">>

RECURSIVE IntToStr(_)
IntToStr(n) == IF n < 10 THEN <<Digits[n + 1]>>
               ELSE IntToStr(n \div 10) \o <<Digits[(n % 10) + 1]>>

(***************************************************************************)
(* The local file system: a map from paths to "dir", "file" or "partial".  *)
(***************************************************************************)
Exists(f, p) == p \in DOMAIN f

Put(f, p, k) == [q \in (DOMAIN f) \cup {p} |-> IF q = p THEN k ELSE f[q]]

Del(f, p) == [q \in (DOMAIN f) \ {p} |-> f[q]]

EmptyFs == [q \in {} |-> "dir"]

\* os.makedirs(path, exist_ok=True): `chain` lists the path's ancestors, outermost
\* first, ending with the path itself
CanMakeDirs(f, chain) == \A k \in 1..Len(chain) : Exists(f, chain[k]) => f[chain[k]] = "dir"

RECURSIVE MakeDirs(_, _)
MakeDirs(f, chain) == IF chain = <<>> THEN f
                      ELSE MakeDirs(Put(f, Head(chain), "dir"), Tail(chain))

create_directory(f, chain) == MakeDirs(f, chain)

(***************************************************************************)
(* Bounds of the model and the inputs drawn from them                      *)
(***************************************************************************)
MaxPages == 3

MaxComposites == 3

MaxFiles == 2

RequestYear == 2021

output_dir == <<"d">>

\* state codes a caller may pass
StateArgs == {<<"M", "S">>, <<"m", "s">>, <<"z", "z">>}

NameZip == <<"a", ".", "z", "i", "p">>

NameTif == <<"b", ".", "t", "i", "f">>

NamePlain == <<"a">>

FileNames == {NameZip, NameTif, NamePlain}

Cfgs == [overwrite : BOOLEAN, unzip : BOOLEAN]

(***************************************************************************)
(* The remote Box folder tree.  A listing is a sequence of pages, a page a *)
(* sequence of items.                                                      *)
(***************************************************************************)
RootId == "root"

YearId == "y"

OtherYearId == "y0"

StateId == "s"

OtherStateId == "s0"

StateIds == {StateId, OtherStateId}

CompositeId(k) == "c" \o ToString(k)

FileId(k) == "f" \o ToString(k)

CompositeIds == {CompositeId(k) : k \in 1..(MaxComposites + 1)}

\* root pages: every page holds another year's folder; the pages in `holds`
\* also hold the folder of the requested year
RootListing(n, holds) ==
    [p \in 1..n |->
        <<File("readme", <<"r">>), Folder(OtherYearId, IntToStr(RequestYear - 1), 0)>>
        \o (IF p \in holds THEN <<Folder(YearId, IntToStr(RequestYear), 0)>> ELSE <<>>)]

\* the year folder's pages: the pages in `holds` hold the state folder, named `name`
YearListing(n, holds, name) ==
    [p \in 1..n |->
        <<Folder(OtherStateId, <<"A", "L">>, 0)>>
        \o (IF p \in holds THEN <<Folder(StateId, name, 0)>> ELSE <<>>)]

\* the state folder's children, one page: folders named `names`, each declaring
\* `declared` files
StateListing(names, declared) ==
    << [k \in 1..Len(names) |-> Folder(CompositeId(k), names[k], declared)] >>

RECURSIVE Chunk(_, _)
Chunk(s, size) == IF Len(s) <= size THEN <<s>>
                  ELSE <<SubSeq(s, 1, size)>> \o Chunk(SubSeq(s, size + 1, Len(s)), size)

\* a composite folder's pages: a sub-folder, then the files `names`, `size` items a page
FilesListing(names, size) ==
    LET pages == Chunk([k \in 1..Len(names) |-> File(FileId(k), names[k])], size)
    IN [p \in 1..Len(pages) |->
           IF p = 1 THEN <<Folder("sub", <<"s", "u", "b">>, 0)>> \o pages[p] ELSE pages[p]]

SeqsUpTo(S, n) == UNION {[1..k -> S] : k \in 0..n}

\* composite folder names for a state code: multispectral, CIR, RGB, in either
\* case, and a folder that is none of them
CompositeNames(code) ==
    { Lower(code) \o <<"_", "m">>, Upper(code) \o <<"_", "C">>,
      Lower(code) \o <<"_", "n">>, Lower(code) \o <<"_", "x">> }

GoodRoot == RootListing(1, {1})

GoodYear(code) == YearListing(1, {1}, Upper(code))

DefaultCfg == [overwrite |-> FALSE, unzip |-> TRUE]

Scenario(code, root, year, state, files, cfgs) ==
    [state |-> code, root |-> root, year |-> year, children |-> state, files |-> files,
     cfgs |-> cfgs]

MsM == <<"m", "s", "_", "m">>

MsC == <<"m", "s", "_", "c">>

MsN == <<"m", "s", "_", "n">>

\* the year folder's place in the root listing varies
RootScenarios ==
    { Scenario(code, RootListing(n, holds), GoodYear(code), StateListing(<<MsM>>, 0),
               <<<<>>>>, {DefaultCfg}) :
        code \in StateArgs, n \in 1..MaxPages, holds \in SUBSET (1..MaxPages) }

\* the state folder's place and letter case in the year listing vary
YearScenarios ==
    { Scenario(code, GoodRoot, YearListing(n, holds, name), StateListing(<<MsM>>, 0),
               <<<<>>>>, {DefaultCfg}) :
        code \in StateArgs, n \in 1..MaxPages, holds \in SUBSET (1..MaxPages),
        name \in {<<"M", "S">>, <<"m", "s">>, <<"Z", "Z">>} }

\* the state folder's children vary
CompositeScenarios ==
    { Scenario(code, GoodRoot, GoodYear(code), StateListing(names, 0), <<<<>>>>,
               {DefaultCfg}) :
        code \in StateArgs, names \in SeqsUpTo(CompositeNames(<<"m", "s">>), MaxComposites) }

\* the files of one composite folder, their paging and the declared count vary
FileScenarios ==
    { Scenario(<<"M", "S">>, GoodRoot, GoodYear(<<"M", "S">>),
               StateListing(<<MsM>>, declared), FilesListing(fnames, size), Cfgs) :
        declared \in 0..(MaxFiles + 1),
        fnames \in SeqsUpTo(FileNames, MaxFiles),
        size \in 1..MaxFiles }

\* two composite folders with one archive each
TwoFolderScenarios ==
    { Scenario(<<"M", "S">>, GoodRoot, GoodYear(<<"M", "S">>),
               StateListing(<<MsC, MsN>>, 1), FilesListing(<<NameZip>>, 1), Cfgs) }

\* one file to download for each state code a caller may pass
CodeScenarios ==
    { Scenario(code, GoodRoot, GoodYear(code),
               StateListing(<<Lower(code) \o <<"_", "m">>>>, 1),
               FilesListing(<<NamePlain>>, 1), {DefaultCfg}) :
        code \in StateArgs }

Scenarios ==
    RootScenarios \cup YearScenarios \cup CompositeScenarios \cup FileScenarios
    \cup TwoFolderScenarios \cup CodeScenarios

\* the scenarios of a run followed by a rerun: every file of the listing is
\* declared, and the first run is one with overwrite=False
RerunScenarios ==
    { Scenario(<<"M", "S">>, GoodRoot, GoodYear(<<"M", "S">>),
               StateListing(<<MsM>>, MaxFiles), FilesListing(fnames, size),
               {c \in Cfgs : ~c.overwrite}) :
        fnames \in SeqsUpTo(FileNames, MaxFiles),
        size \in 1..MaxFiles }

\* the listing of a folder id
Listing(rem, id) ==
    IF id = RootId THEN rem.root
    ELSE IF id \in DOMAIN rem.years THEN rem.years[id]
    ELSE IF id \in StateIds THEN rem.children
    ELSE IF id \in CompositeIds THEN rem.files
    ELSE <<<<>>>>

\* the parsed payload the server gives for a listing request; a URL with no
\* page parameter (page 0 here) is served page 1, a page past the last is empty
Serve(rem, req) ==
    LET pages == Listing(rem, req.id)
        p == IF req.page = 0 THEN 1 ELSE req.page
    IN [shared_folder |->
           [items |-> IF p \in 1..Len(pages) THEN pages[p] ELSE <<>>,
            pageCount |-> Len(pages)]]

\* the page of a listing a request is served
ServedPage(req) == IF req.page = 0 THEN 1 ELSE req.page

(***************************************************************************)
(* scraper.py: the requests and the pure parts of download_state_data and  *)
(* _download_all_files_in_folder                                           *)
(***************************************************************************)
\* what a request can end in: a response that parses, an HTTP failure, or a
\* page without the embedded JSON
RequestOutcomes == {"ok", "transport", "parse"}

\* self.session.get(NAIP_ROOT_URL): no page parameter
RootRequest(pg) == [kind |-> "listing", id |-> RootId, page |-> 0]

\* NAIP_URL + str(year_folder['id']) + f'?page={page}'
YearRequest(folder, pg) == [kind |-> "listing", id |-> folder.id, page |-> pg]

\* NAIP_URL + str(state_folder['id']): no page parameter
StateRequest(folder) == [kind |-> "listing", id |-> folder.id, page |-> 0]

\* NAIP_URL + folder_url + f'?page={page}'
FilesRequest(folder, pg) == [kind |-> "listing", id |-> folder.id, page |-> pg]

\* DOWNLOAD_URL + str(file['id'])
FileRequest(file) == [kind |-> "file", id |-> file.id, page |-> 0]

\* a plausible slip: the early return is missing
NotFoundNever(x) == FALSE

\* `if not year_folder`, `if not state_folder`
NotFound(x) == x = NoItem

\* `if not composite_folders`
NoneChosen(chosen) == Len(chosen) = 0

\* a plausible slip: the filesCount test is missing
NoFilesNever(folder) == FALSE

\* `if n_files == 0`
NoFiles(folder) == folder.filesCount = 0

IsYearFolder(folder, year) == folder.name = IntToStr(year)

\* a plausible slip: the names are compared as they are
IsStateFolderExact(folder, st) == folder.name = st

IsStateFolder(folder, st) == Upper(folder.name) = Upper(st)

IsMultispectral(folder, st) == Contains(Lower(folder.name), Lower(st) \o <<"_", "m">>)

IsThreeBand(folder, st) ==
    \/ Contains(Lower(folder.name), Lower(st) \o <<"_", "c">>)
    \/ Contains(Lower(folder.name), Lower(st) \o <<"_", "n">>)

\* a plausible slip: the multispectral folder is appended like the others
RECURSIVE CompositeLoopNoBreak(_, _, _)
CompositeLoopNoBreak(rest, st, acc) ==
    IF rest = <<>> THEN acc
    ELSE IF IsMultispectral(Head(rest), st) \/ IsThreeBand(Head(rest), st)
         THEN CompositeLoopNoBreak(Tail(rest), st, Append(acc, Head(rest)))
    ELSE CompositeLoopNoBreak(Tail(rest), st, acc)

\* the loop over color_folders, with its break
RECURSIVE CompositeLoop(_, _, _)
CompositeLoop(rest, st, acc) ==
    IF rest = <<>> THEN acc
    ELSE IF IsMultispectral(Head(rest), st) THEN <<Head(rest)>>
    ELSE IF IsThreeBand(Head(rest), st)
         THEN CompositeLoop(Tail(rest), st, Append(acc, Head(rest)))
    ELSE CompositeLoop(Tail(rest), st, acc)

year_dir(year) == JoinPath(output_dir, IntToStr(year))

state_dir(year, st) == JoinPath(year_dir(year), st)

\* a plausible slip: the composite directory is made under the year directory
composite_dir_flat(year, st, folder) == JoinPath(year_dir(year), folder.name)

composite_dir(year, st, folder) == JoinPath(state_dir(year, st), folder.name)

FilePath(dir, file) == JoinPath(dir, file.name)

\* filepath.replace('.zip', '')
FolderName(filepath) == Remove(filepath, <<".", "z", "i", "p">>)

\* filepath.lower().endswith('.zip')
IsZipName(filepath) == EndsWith(Lower(filepath), <<".", "z", "i", "p">>)

\* a plausible slip: only the destination file is looked at
SkipsFileOnly(f, overwrite, filepath) == ~overwrite /\ Exists(f, filepath)

\* a plausible slip: only the extraction directory is looked at
SkipsFolderOnly(f, overwrite, filepath) == ~overwrite /\ Exists(f, FolderName(filepath))

\* the two skip tests of the file loop
Skips(f, overwrite, filepath) ==
    \/ ~overwrite /\ Exists(f, FolderName(filepath))
    \/ ~overwrite /\ Exists(f, filepath)

\* what zipfile.ZipFile(filepath).extractall(folder_name); os.remove(filepath)
\* can end in: all entries extracted, an archive without entries, BadZipFile,
\* another error before anything is written, another error after the directory
\* was made (a failed write of an entry, or a failed os.remove)
ZipOutcomes == {"extracted", "extracted_empty", "bad_zip", "error_before", "error_after"}

\* how the extraction ends on the tree f: an extraction that has to make entries
\* under a path that is a file fails before anything is written
ZipResult(f, filepath, z) ==
    IF /\ z \in {"extracted", "error_after"}
       /\ Exists(f, FolderName(filepath))
       /\ f[FolderName(filepath)] \notin {"dir", "partial_dir"}
    THEN "error_before"
    ELSE z

Extract(f, filepath, z) ==
    LET folder_name == FolderName(filepath)
        r == ZipResult(f, filepath, z)
    IN CASE r = "bad_zip" -> f
         [] r = "error_before" -> f
         [] r = "extracted_empty" -> Del(f, filepath)
         [] r = "error_after" -> Put(f, folder_name, "partial_dir")
         [] r = "extracted" -> Del(Put(f, folder_name, "dir"), filepath)

(***************************************************************************)
(* State of one download_state_data(year, state) call and of its rerun     *)
(***************************************************************************)
VARIABLES
    remote,             \* the remote tree (fixed during a behaviour)
    arg,                \* the call's arguments: year, state as passed
    cfg,                \* self.overwrite, self.unzip
    pc,                 \* position in the code
    stage,              \* the stage of the (year, state) download reached
    result,             \* how the call ended
    state,              \* the local `state` after validate_state_abbreviation
    page,               \* the local `page`
    year_folder, state_folder, composite_folders,
    ci,                 \* index of the composite folder being downloaded
    n_files, i, files, fi,   \* locals of _download_all_files_in_folder
    reqLog,             \* the requests issued by this call, in order
    fs,                 \* the local file system
    skipped,            \* files skipped by this call
    failed,             \* an error was caught during this call
    called,             \* composite folders handed to _download_all_files_in_folder
    last,               \* what was done with the file processed last
    rerun,              \* this is the second call
    before              \* file system, flags and outcome of the first call

VARIABLES
    nIn, nOut,          \* a utils.py function called on its own: the argument and the value returned
    cli,                \* cli.main: the parsed arguments and where main is
    bulk                \* the bulk operation in progress

others == <<nIn, nOut, cli, bulk>>

dlVars == <<remote, arg, cfg, pc, stage, result, state, page, year_folder, state_folder,
            composite_folders, ci, n_files, i, files, fi, reqLog, fs, skipped, failed,
            called, last, rerun, before>>

NoEvent == [file |-> NoItem, path |-> None, did |-> "none", zip |-> "none"]

\* the request that labels the progress bar failed: `except Exception: year = 'Unknown'`
LabelFailed == [file |-> NoItem, path |-> None, did |-> "label_failed", zip |-> "none"]

NoBefore == [fs |-> EmptyFs, cfg |-> [overwrite |-> FALSE, unzip |-> FALSE],
             failed |-> FALSE, result |-> "none"]

Locals0 ==
    /\ pc = "start" /\ stage = "Start" /\ result = "running"
    /\ state = None /\ page = 1
    /\ year_folder = NoItem /\ state_folder = NoItem /\ composite_folders = <<>>
    /\ ci = 0 /\ n_files = 0 /\ i = 0 /\ files = <<>> /\ fi = 0
    /\ reqLog = <<>> /\ skipped = 0 /\ failed = FALSE /\ called = <<>>
    /\ last = NoEvent

\* no download_state_data call is in progress
DlIdle ==
    /\ remote = [root |-> GoodRoot,
                 years |-> (YearId :> GoodYear(<<"M", "S">>)) @@ (OtherYearId :> <<<<>>>>),
                 children |-> StateListing(<<MsC, MsN>>, 1),
                 files |-> FilesListing(<<NameZip>>, 1)]
    /\ arg = [year |-> RequestYear, state |-> <<"M", "S">>]
    /\ cfg = DefaultCfg
    /\ pc = "idle" /\ stage = "Start" /\ result = "running"
    /\ state = None /\ page = 1
    /\ year_folder = NoItem /\ state_folder = NoItem /\ composite_folders = <<>>
    /\ ci = 0 /\ n_files = 0 /\ i = 0 /\ files = <<>> /\ fi = 0
    /\ reqLog = <<>> /\ skipped = 0 /\ failed = FALSE /\ called = <<>>
    /\ last = NoEvent
    /\ fs = EmptyFs
    /\ rerun = FALSE
    /\ before = NoBefore

DlInit(scenarios) ==
    /\ \E sc \in scenarios :
          /\ remote = [root |-> sc.root,
                       years |-> (YearId :> sc.year) @@ (OtherYearId :> <<<<>>>>),
                       children |-> sc.children, files |-> sc.files]
          /\ arg = [year |-> RequestYear, state |-> sc.state]
          /\ cfg \in sc.cfgs
    /\ Locals0
    /\ fs = EmptyFs
    /\ rerun = FALSE
    /\ before = NoBefore

envVars == <<remote, arg, cfg, rerun, before>>

navVars == <<state, year_folder, state_folder, composite_folders>>

folderVars == <<n_files, i, files, fi>>

\* the classes of error the program meets: a failed HTTP request, a page without
\* the embedded JSON, an OSError of the file system
ErrorClasses == {"transport", "parse", "filesystem"}

\* a plausible slip: `except requests.RequestException`
CatchesRequestException(cls) == cls = "transport"

\* `except Exception`: every error class above is one
CatchesException(cls) == cls \in ErrorClasses

\* how a call ends that an error of class cls leaves uncaught
Raised(cls) == "raised:" \o cls

\* an error reaches the except clause of download_state_data: it is printed and
\* the call returns, or it is not caught and leaves the call
Abort(req, cls) ==
    /\ pc' = "done" /\ failed' = TRUE
    /\ result' = IF CatchesException(cls) THEN "error" ELSE Raised(cls)
    /\ reqLog' = IF req = NoItem THEN reqLog ELSE Append(reqLog, req)

\* state = validate_state_abbreviation(state)
Start ==
    /\ pc = "start"
    /\ state' = validate_state_abbreviation(arg.state)
    /\ page' = 1
    /\ pc' = "year"
    /\ UNCHANGED <<others, envVars, stage, result, year_folder, state_folder, composite_folders,
                   ci, folderVars, reqLog, fs, skipped, failed, called, last>>

\* one pass of the "Get year folder" loop
FetchRoot ==
    /\ pc = "year"
    /\ \E out \in RequestOutcomes :
         LET req == RootRequest(page)
             data == Serve(remote, req)
             found == FirstMatch(extract_folders(data), LAMBDA f : IsYearFolder(f, arg.year))
         IN IF out # "ok"
            THEN /\ Abort(req, out)
                 /\ UNCHANGED <<year_folder, page, stage>>
            ELSE /\ reqLog' = Append(reqLog, req)
                 /\ year_folder' = found
                 /\ UNCHANGED failed
                 /\ IF found # NoItem \/ page >= get_page_count(data)
                    THEN IF NotFound(found)
                         THEN /\ pc' = "done" /\ result' = "year_not_found"
                              /\ UNCHANGED <<page, stage>>
                         ELSE /\ pc' = "state" /\ stage' = "YearResolved" /\ page' = 1
                              /\ UNCHANGED result
                    ELSE /\ page' = page + 1
                         /\ UNCHANGED <<pc, result, stage>>
    /\ UNCHANGED <<others, envVars, state, state_folder, composite_folders, ci, folderVars, fs,
                   skipped, called, last>>

\* one pass of the "Get state folder" loop
FetchYear ==
    /\ pc = "state"
    /\ \E out \in RequestOutcomes :
         LET req == YearRequest(year_folder, page)
             data == Serve(remote, req)
             found == FirstMatch(extract_folders(data), LAMBDA f : IsStateFolder(f, state))
         IN IF out # "ok"
            THEN /\ Abort(req, out)
                 /\ UNCHANGED <<state_folder, page, stage>>
            ELSE /\ reqLog' = Append(reqLog, req)
                 /\ state_folder' = found
                 /\ UNCHANGED failed
                 /\ IF found # NoItem \/ page >= get_page_count(data)
                    THEN IF NotFound(found)
                         THEN /\ pc' = "done" /\ result' = "state_not_found"
                              /\ UNCHANGED <<page, stage>>
                         ELSE /\ pc' = "composites" /\ stage' = "StateResolved"
                              /\ UNCHANGED <<result, page>>
                    ELSE /\ page' = page + 1
                         /\ UNCHANGED <<pc, result, stage>>
    /\ UNCHANGED <<others, envVars, state, year_folder, composite_folders, ci, folderVars, fs,
                   skipped, called, last>>

\* the state folder's listing, the composite selection and create_directory(state_dir)
FetchState ==
    /\ pc = "composites"
    /\ \E out \in RequestOutcomes, mk \in BOOLEAN :
         LET req == StateRequest(state_folder)
             data == Serve(remote, req)
             chosen == CompositeLoop(extract_folders(data), state, <<>>)
             chain == <<output_dir, year_dir(arg.year), state_dir(arg.year, state)>>
         IN IF out # "ok"
            THEN /\ Abort(req, out)
                 /\ UNCHANGED <<composite_folders, stage, fs, ci>>
            ELSE /\ composite_folders' = chosen
                 /\ IF NoneChosen(chosen)
                    THEN /\ pc' = "done" /\ result' = "no_composites"
                         /\ reqLog' = Append(reqLog, req)
                         /\ UNCHANGED <<stage, fs, ci, failed>>
                    ELSE /\ stage' = "CompositesResolved"
                         /\ IF mk /\ CanMakeDirs(fs, chain)
                            THEN /\ fs' = create_directory(fs, chain)
                                 /\ pc' = "folder" /\ ci' = 1
                                 /\ reqLog' = Append(reqLog, req)
                                 /\ UNCHANGED <<result, failed>>
                            ELSE /\ Abort(req, "filesystem")
                                 /\ UNCHANGED <<fs, ci>>
    /\ UNCHANGED <<others, envVars, state, page, year_folder, state_folder, folderVars,
                   skipped, called, last>>

\* _download_all_files_in_folder returns to the loop over composite_folders
FolderReturn == pc' = "return" /\ UNCHANGED <<stage, result, ci>>

\* a plausible slip: the page loop has no except clause of its own, so the error
\* goes to the except clause of download_state_data and ends the call
FolderFailPropagates(cls) ==
    /\ failed' = TRUE
    /\ pc' = "done" /\ result' = "error" /\ UNCHANGED <<stage, ci>>

\* a plausible slip: the except clause of the page loop goes on instead of breaking
FolderFailContinues(cls) ==
    /\ failed' = TRUE
    /\ UNCHANGED <<pc, stage, result, ci>>

\* an error inside the page loop of _download_all_files_in_folder: its except
\* clause prints it and breaks, or it is not caught and leaves both calls
FolderFail(cls) ==
    /\ failed' = TRUE
    /\ IF CatchesException(cls)
       THEN FolderReturn
       ELSE pc' = "done" /\ result' = Raised(cls) /\ UNCHANGED <<stage, ci>>

\* create_directory(composite_dir) and the head of _download_all_files_in_folder:
\* the filesCount test and the request that only labels the progress bar
BeginFolder ==
    /\ pc = "folder"
    /\ \E mk \in BOOLEAN, test \in RequestOutcomes :
         LET folder == composite_folders[ci]
             chain == <<output_dir, year_dir(arg.year), state_dir(arg.year, state),
                        composite_dir(arg.year, state, folder)>>
         IN IF ~(mk /\ CanMakeDirs(fs, chain))
            THEN /\ Abort(NoItem, "filesystem")
                 /\ UNCHANGED <<fs, stage, ci, called, n_files, i, page, last>>
            ELSE /\ fs' = create_directory(fs, chain)
                 /\ called' = Append(called, folder)
                 /\ n_files' = folder.filesCount
                 /\ UNCHANGED failed
                 /\ stage' = "Downloading"
                 /\ UNCHANGED <<result, ci>>
                 /\ IF NoFiles(folder)
                    THEN /\ pc' = "return"
                         /\ UNCHANGED <<reqLog, i, page, last>>
                    ELSE /\ reqLog' = Append(reqLog, FilesRequest(folder, 1))
                         /\ last' = IF CatchesException(test) THEN LabelFailed ELSE NoEvent
                         /\ i' = 0 /\ page' = 1
                         /\ pc' = "page"
    /\ UNCHANGED <<others, envVars, navVars, files, fi, skipped>>

\* while i < n_files: the condition is false
FilesLoopExit ==
    /\ pc = "page"
    /\ i >= n_files
    /\ FolderReturn
    /\ UNCHANGED <<others, envVars, navVars, page, folderVars, reqLog, fs, skipped, failed,
                   called, last>>

\* a plausible slip: the page loop has no `if not files: break`
FetchFilesPageNoBreak ==
    /\ pc = "page"
    /\ i < n_files
    /\ \E out \in RequestOutcomes :
         LET req == FilesRequest(composite_folders[ci], page)
             got == extract_files(Serve(remote, req))
         IN /\ reqLog' = Append(reqLog, req)
            /\ IF out # "ok"
               THEN /\ FolderFail(out)
                    /\ UNCHANGED <<files, fi>>
               ELSE /\ UNCHANGED failed
                    /\ files' = got /\ fi' = 1 /\ pc' = "file"
                    /\ UNCHANGED <<stage, result, ci>>
    /\ UNCHANGED <<others, envVars, navVars, page, n_files, i, fs, skipped, called, last>>

\* one listing page of the composite folder
FetchFilesPage ==
    /\ pc = "page"
    /\ i < n_files
    /\ \E out \in RequestOutcomes :
         LET req == FilesRequest(composite_folders[ci], page)
             got == extract_files(Serve(remote, req))
         IN /\ reqLog' = Append(reqLog, req)
            /\ IF out # "ok"
               THEN /\ FolderFail(out)
                    /\ UNCHANGED <<files, fi>>
               ELSE /\ UNCHANGED failed
                    /\ IF got = <<>>
                       THEN /\ FolderReturn
                            /\ UNCHANGED <<files, fi>>
                       ELSE /\ files' = got /\ fi' = 1 /\ pc' = "file"
                            /\ UNCHANGED <<stage, result, ci>>
    /\ UNCHANGED <<others, envVars, navVars, page, n_files, i, fs, skipped, called, last>>

\* what the byte download of one file can end in
DownloadOutcomes == {"ok", "http_error", "open_error", "write_error"}

\* a plausible slip: the for loop has no `if i >= n_files: break`
ProcessFileNoBreak ==
    /\ pc = "file"
    /\ fi <= Len(files)
    /\ LET file == files[fi]
           filepath == FilePath(composite_dir(arg.year, state, composite_folders[ci]), file)
       IN IF Skips(fs, cfg.overwrite, filepath)
          THEN /\ i' = i + 1 /\ fi' = fi + 1 /\ skipped' = skipped + 1
               /\ last' = [file |-> file, path |-> filepath, did |-> "skipped", zip |-> "none"]
               /\ UNCHANGED <<pc, stage, result, ci, reqLog, fs, failed>>
          ELSE \E out \in DownloadOutcomes, z \in ZipOutcomes :
                 LET isdir == Exists(fs, filepath) /\ fs[filepath] \in {"dir", "partial_dir"}
                     unzips == cfg.unzip /\ IsZipName(filepath)
                 IN /\ reqLog' = Append(reqLog, FileRequest(file))
                    /\ UNCHANGED skipped
                    /\ IF out = "ok" /\ ~isdir
                       THEN /\ fs' = IF unzips THEN Extract(Put(fs, filepath, "file"), filepath, z)
                                     ELSE Put(fs, filepath, "file")
                            /\ last' = [file |-> file, path |-> filepath, did |-> "downloaded",
                                        zip |-> IF unzips
                                                THEN ZipResult(Put(fs, filepath, "file"),
                                                               filepath, z)
                                                ELSE "none"]
                            /\ i' = i + 1 /\ fi' = fi + 1
                            /\ UNCHANGED <<pc, stage, result, ci, failed>>
                       ELSE /\ fs' = IF out = "write_error" /\ ~isdir
                                     THEN Put(fs, filepath, "partial") ELSE fs
                            /\ last' = [file |-> file, path |-> filepath, did |-> "failed",
                                        zip |-> "none"]
                            /\ FolderFail(IF out = "http_error" THEN "transport"
                                          ELSE "filesystem")
                            /\ UNCHANGED <<i, fi>>
    /\ UNCHANGED <<others, envVars, navVars, page, n_files, files, called>>

\* the body of `for file in files` for one file
ProcessFile ==
    /\ pc = "file"
    /\ fi <= Len(files)
    /\ i < n_files
    /\ LET file == files[fi]
           filepath == FilePath(composite_dir(arg.year, state, composite_folders[ci]), file)
       IN IF Skips(fs, cfg.overwrite, filepath)
          THEN /\ i' = i + 1 /\ fi' = fi + 1 /\ skipped' = skipped + 1
               /\ last' = [file |-> file, path |-> filepath, did |-> "skipped", zip |-> "none"]
               /\ UNCHANGED <<pc, stage, result, ci, reqLog, fs, failed>>
          ELSE \E out \in DownloadOutcomes, z \in ZipOutcomes :
                 LET isdir == Exists(fs, filepath) /\ fs[filepath] \in {"dir", "partial_dir"}
                     unzips == cfg.unzip /\ IsZipName(filepath)
                 IN /\ reqLog' = Append(reqLog, FileRequest(file))
                    /\ UNCHANGED skipped
                    /\ IF out = "ok" /\ ~isdir
                       THEN /\ fs' = IF unzips THEN Extract(Put(fs, filepath, "file"), filepath, z)
                                     ELSE Put(fs, filepath, "file")
                            /\ last' = [file |-> file, path |-> filepath, did |-> "downloaded",
                                        zip |-> IF unzips
                                                THEN ZipResult(Put(fs, filepath, "file"),
                                                               filepath, z)
                                                ELSE "none"]
                            /\ i' = i + 1 /\ fi' = fi + 1
                            /\ UNCHANGED <<pc, stage, result, ci, failed>>
                       ELSE /\ fs' = IF out = "write_error" /\ ~isdir
                                     THEN Put(fs, filepath, "partial") ELSE fs
                            /\ last' = [file |-> file, path |-> filepath, did |-> "failed",
                                        zip |-> "none"]
                            /\ FolderFail(IF out = "http_error" THEN "transport"
                                          ELSE "filesystem")
                            /\ UNCHANGED <<i, fi>>
    /\ UNCHANGED <<others, envVars, navVars, page, n_files, files, called>>

\* `for folder in composite_folders` goes on to the next folder, or the call ends
NextComposite ==
    /\ pc = "return"
    /\ IF ci + 1 > Len(composite_folders)
       THEN pc' = "done" /\ stage' = "Done" /\ result' = "ok" /\ ci' = ci
       ELSE pc' = "folder" /\ ci' = ci + 1 /\ UNCHANGED <<stage, result>>
    /\ UNCHANGED <<others, envVars, navVars, page, folderVars, reqLog, fs, skipped, failed,
                   called, last>>

\* the for loop ends, by exhaustion or by its break: page += 1
EndPage ==
    /\ pc = "file"
    /\ fi > Len(files) \/ i >= n_files
    /\ page' = page + 1
    /\ pc' = "page"
    /\ UNCHANGED <<others, envVars, navVars, stage, result, ci, folderVars, reqLog, fs, skipped,
                   failed, called, last>>

\* download_state_data(year, st) is entered: its locals are fresh
DlCall(year, st) ==
    /\ arg' = [year |-> year, state |-> st]
    /\ pc' = "start" /\ stage' = "Start" /\ result' = "running"
    /\ state' = None /\ page' = 1
    /\ year_folder' = NoItem /\ state_folder' = NoItem /\ composite_folders' = <<>>
    /\ ci' = 0 /\ n_files' = 0 /\ i' = 0 /\ files' = <<>> /\ fi' = 0
    /\ reqLog' = <<>> /\ skipped' = 0 /\ failed' = FALSE /\ called' = <<>>
    /\ last' = NoEvent

\* the same command is run again, with any flags, on the tree the first run left
Rerun ==
    /\ pc = "done"
    /\ ~rerun
    /\ rerun' = TRUE
    /\ before' = [fs |-> fs, cfg |-> cfg, failed |-> failed, result |-> result]
    /\ cfg' \in Cfgs
    /\ DlCall(arg.year, arg.state)
    /\ UNCHANGED <<others, remote, fs>>

\* where the process can be when it is terminated while a file is being
\* processed: before the destination is opened, after open(filepath, 'wb') and
\* before the write has finished, or inside extractall
KillPoints == {"between", "mid_write", "mid_extract"}

\* the tree a termination at point k leaves for the file at filepath
KilledTree(f, filepath, k, unzips) ==
    LET isdir == Exists(f, filepath) /\ f[filepath] \in {"dir", "partial_dir"}
        folder_name == FolderName(filepath)
    IN IF isdir THEN f
       ELSE IF k = "mid_write" THEN Put(f, filepath, "partial")
       ELSE IF k = "mid_extract" /\ unzips /\ ZipResult(Put(f, filepath, "file"), filepath,
                                                        "error_after") = "error_after"
       THEN Put(Put(f, filepath, "file"), folder_name, "partial_dir")
       ELSE f

\* the process is terminated from outside during the first run
Interrupt ==
    /\ ~rerun
    /\ pc \notin {"idle", "done", "killed"}
    /\ pc' = "killed" /\ result' = "killed"
    /\ IF pc = "file" /\ fi <= Len(files) /\ i < n_files
       THEN LET filepath == FilePath(composite_dir(arg.year, state, composite_folders[ci]),
                                     files[fi])
            IN IF Skips(fs, cfg.overwrite, filepath)
               THEN fs' = fs
               ELSE \E k \in KillPoints :
                       fs' = KilledTree(fs, filepath, k, cfg.unzip /\ IsZipName(filepath))
       ELSE fs' = fs
    /\ UNCHANGED <<others, envVars, navVars, stage, page, ci, folderVars, reqLog, skipped,
                   failed, called, last>>

\* the same command is run again with overwrite=False on the tree the
\* terminated run left
Resume ==
    /\ pc = "killed"
    /\ ~rerun
    /\ rerun' = TRUE
    /\ before' = [fs |-> fs, cfg |-> cfg, failed |-> failed, result |-> result]
    /\ cfg' = [cfg EXCEPT !.overwrite = FALSE]
    /\ DlCall(arg.year, arg.state)
    /\ UNCHANGED <<others, remote, fs>>

DlNext ==
    \/ Start \/ FetchRoot \/ FetchYear \/ FetchState
    \/ BeginFolder \/ FilesLoopExit \/ FetchFilesPage \/ ProcessFile \/ EndPage
    \/ NextComposite

vars == <<dlVars, others>>

(***************************************************************************)
(* validate_state_abbreviation as a call: the argument is drawn from the   *)
(* codes of at most MaxCodeLen letters                                     *)
(***************************************************************************)
MaxCodeLen == 2

CodeChars == {"m", "s", "M", "S", "z", "Z", "a", "L"}

Pending == <<"<pending>">>

NormIdle == nIn = None /\ nOut = None

CliIdle == cli = [pc |-> "idle"]

BulkIdle == bulk = [op |-> "none"]

NormInit ==
    /\ nIn \in SeqsUpTo(CodeChars, MaxCodeLen)
    /\ nOut = Pending
    /\ cli = [pc |-> "idle"] /\ bulk = [op |-> "none"]
    /\ DlIdle

Validate ==
    /\ nOut = Pending
    /\ nOut' = validate_state_abbreviation(nIn)
    /\ UNCHANGED <<nIn, cli, bulk, dlVars>>

NormNext == Validate

SpecNorm == NormInit /\ [][NormNext]_vars

(***************************************************************************)
(* extract_folders and extract_files called on their own on one parsed     *)
(* listing: nIn is the listing as it is after the calls made so far        *)
(***************************************************************************)
MaxItems == 3

\* the items a listing is made of
ItemPool ==
    { Folder("d1", <<"a">>, 1), Folder("d2", <<"b">>, 0),
      File("f1", <<"a">>), File("f2", NameZip) }

Payload(its) == [shared_folder |-> [items |-> its, pageCount |-> 1]]

PartsInit ==
    /\ nIn \in {Payload(its) : its \in SeqsUpTo(ItemPool, MaxItems)}
    /\ nOut = [folders |-> <<>>, files |-> <<>>, called |-> {}]
    /\ CliIdle /\ BulkIdle /\ DlIdle

\* folders = extract_folders(data): the comprehension builds a new list
CallExtractFolders ==
    /\ "folders" \notin nOut.called
    /\ nOut' = [nOut EXCEPT !.folders = extract_folders(nIn),
                            !.called = @ \cup {"folders"}]
    /\ UNCHANGED <<nIn, cli, bulk, dlVars>>

\* files = extract_files(data)
CallExtractFiles ==
    /\ "files" \notin nOut.called
    /\ nOut' = [nOut EXCEPT !.files = extract_files(nIn),
                            !.called = @ \cup {"files"}]
    /\ UNCHANGED <<nIn, cli, bulk, dlVars>>

PartsNext == CallExtractFolders \/ CallExtractFiles

SpecParts == PartsInit /\ [][PartsNext]_vars

(***************************************************************************)
(* main.py, the prototype: get_folders_from_response and                   *)
(* get_files_from_response filter the item list while iterating over it    *)
(***************************************************************************)
\* list.remove(x): the first item equal to x is taken out
RemoveFirst(seq, x) ==
    LET k == CHOOSE k \in 1..Len(seq) : seq[k] = x /\ \A j \in 1..(k - 1) : seq[j] # x
    IN SubSeq(seq, 1, k - 1) \o SubSeq(seq, k + 1, Len(seq))

\* for item in items: if item['type'] != wanted: items.remove(item)
\* the iterator holds a position, which moves on by one after every item
\* whatever was removed
RECURSIVE RemoveWhileIterating(_, _, _)
RemoveWhileIterating(items, wanted, pos) ==
    IF pos > Len(items) THEN items
    ELSE IF items[pos].type # wanted
         THEN RemoveWhileIterating(RemoveFirst(items, items[pos]), wanted, pos + 1)
         ELSE RemoveWhileIterating(items, wanted, pos + 1)

get_folders_from_response(data) == RemoveWhileIterating(data.shared_folder.items, "folder", 1)

get_files_from_response(data) == RemoveWhileIterating(data.shared_folder.items, "file", 1)

ProtoInit ==
    /\ nIn \in {Payload(its) : its \in SeqsUpTo(ItemPool, MaxItems)}
    /\ nOut = [folders |-> <<>>, files |-> <<>>, called |-> {}]
    /\ CliIdle /\ BulkIdle /\ DlIdle

\* folders = get_folders_from_response(response): the payload is parsed anew
\* from the response in each call
ProtoGetFolders ==
    /\ "folders" \notin nOut.called
    /\ nOut' = [nOut EXCEPT !.folders = get_folders_from_response(nIn),
                            !.called = @ \cup {"folders"}]
    /\ UNCHANGED <<nIn, cli, bulk, dlVars>>

\* files = get_files_from_response(response)
ProtoGetFiles ==
    /\ "files" \notin nOut.called
    /\ nOut' = [nOut EXCEPT !.files = get_files_from_response(nIn),
                            !.called = @ \cup {"files"}]
    /\ UNCHANGED <<nIn, cli, bulk, dlVars>>

ProtoNext == ProtoGetFolders \/ ProtoGetFiles

SpecProto == ProtoInit /\ [][ProtoNext]_vars

(***************************************************************************)
(* utils.py: parse_json_response.  A script's text is a sequence of pieces:*)
(* the marker, a ';', a JSON document, or text that is none of these.      *)
(***************************************************************************)
MaxScriptLen == 3

Marker == "Box.postStreamData = "

JsonText == "{}"

Pieces == {Marker, ";", JsonText, "x"}

\* script.split('Box.postStreamData = ', 1)[-1]: the text after the first marker,
\* the whole text when there is none
AfterMarker(script) ==
    IF \E k \in 1..Len(script) : script[k] = Marker
    THEN LET k == CHOOSE k \in 1..Len(script) :
                      script[k] = Marker /\ \A j \in 1..(k - 1) : script[j] # Marker
         IN Slice(script, k + 1, Len(script))
    ELSE script

\* text.rsplit(';', 1)[0]: the text before the last ';', the whole text when
\* there is none
BeforeLastSemi(text) ==
    IF \E k \in 1..Len(text) : text[k] = ";"
    THEN LET k == CHOOSE k \in 1..Len(text) :
                      text[k] = ";" /\ \A j \in (k + 1)..Len(text) : text[j] # ";"
         IN Slice(text, 1, k - 1)
    ELSE text

\* json.loads accepts exactly one JSON document
JsonLoads(raw) == raw = <<JsonText>>

Returned(data) == [raised |-> "none", data |-> data]

RaisedBy(cls) == [raised |-> cls, data |-> <<>>]

\* html is the sequence of the document's script blocks
parse_json_response(html) ==
    IF Len(html) = 0 THEN RaisedBy("IndexError")
    ELSE LET script == html[Len(html)]
             raw_json == BeforeLastSemi(AfterMarker(script))
         IN IF JsonLoads(raw_json) THEN Returned(raw_json)
            ELSE RaisedBy("JSONDecodeError")

\* documents with no script, one script, and a marked script before the last
Documents ==
    {<<>>}
    \cup {<<s>> : s \in SeqsUpTo(Pieces, MaxScriptLen)}
    \cup {<<<<Marker, JsonText, ";">>, s>> : s \in SeqsUpTo(Pieces, MaxScriptLen)}

ParseInit ==
    /\ nIn \in Documents
    /\ nOut = RaisedBy("pending")
    /\ CliIdle /\ BulkIdle /\ DlIdle

ParseCall ==
    /\ nOut.raised = "pending"
    /\ nOut' = parse_json_response(nIn)
    /\ UNCHANGED <<nIn, cli, bulk, dlVars>>

ParseNext == ParseCall

SpecParse == ParseInit /\ [][ParseNext]_vars

(***************************************************************************)
(* The specifications of one download and of a download and its rerun      *)
(***************************************************************************)
Init == DlInit(Scenarios) /\ NormIdle /\ CliIdle /\ BulkIdle

Next == DlNext

Spec == Init /\ [][Next]_vars

\* one download that keeps running until it has ended: the download of the files of one or two composite folders
TermInit == DlInit(FileScenarios \cup TwoFolderScenarios) /\ NormIdle /\ CliIdle /\ BulkIdle

SpecTerm == TermInit /\ [][Next]_vars /\ WF_vars(Next)

InitRerun == DlInit(RerunScenarios) /\ NormIdle /\ CliIdle /\ BulkIdle

NextRerun == DlNext \/ Rerun

SpecRerun == InitRerun /\ [][NextRerun]_vars

(***************************************************************************)
(* The specification of a download terminated from outside and run again   *)
(***************************************************************************)
\* one composite folder, every file of its listing declared, any flags
ResumeScenarios ==
    { Scenario(<<"M", "S">>, GoodRoot, GoodYear(<<"M", "S">>),
               StateListing(<<MsM>>, MaxFiles), FilesListing(fnames, size), Cfgs) :
        fnames \in SeqsUpTo(FileNames, MaxFiles),
        size \in 1..MaxFiles }

InitResume == DlInit(ResumeScenarios) /\ NormIdle /\ CliIdle /\ BulkIdle

NextResume == DlNext \/ Interrupt \/ Resume

SpecResume == InitResume /\ [][NextResume]_vars

(***************************************************************************)
(* cli.py: main, from the parsed arguments to the construction of the      *)
(* scraper                                                                 *)
(***************************************************************************)
\* the command lines: --year and --state given or not, --list-years and
\* --list-states absent, bare or with a value, and the store_true flags
ArgvSets ==
    [year : BOOLEAN, state : BOOLEAN,
     list_years : {"absent", "bare", "value"},
     list_states : {"absent", "bare", "value"},
     force : BOOLEAN, no_unzip : BOOLEAN, overwrite : BOOLEAN,
     cir_only : BOOLEAN, rgb_only : BOOLEAN]

\* the parameters of NAIPScraper.__init__ after self
InitParams == {"base_url", "output_dir", "unzip", "overwrite"}

\* the keyword arguments main passes to NAIPScraper(...)
InitKwargs == {"output_dir", "unzip", "overwrite", "cir_only", "rgb_only"}

\* a call with a keyword the signature does not name raises TypeError
KwargsAccepted(kw, params) == kw \subseteq params

CliInit ==
    /\ \E a \in ArgvSets : cli = [pc |-> "parsed", args |-> a, error |-> "none", exit |-> "none"]
    /\ NormIdle /\ BulkIdle /\ DlIdle

\* an exception nothing catches ends the interpreter with status 1
CliRaise(e) == cli' = [cli EXCEPT !.pc = "exited", !.error = e, !.exit = "1"]

\* a plausible slip: the two filters are not checked against each other
CheckFiltersNever ==
    /\ cli.pc = "parsed"
    /\ cli' = [cli EXCEPT !.pc = "construct"]
    /\ UNCHANGED <<nIn, nOut, bulk, dlVars>>

\* if args.cir_only and args.rgb_only: raise ValueError
CheckFilters ==
    /\ cli.pc = "parsed"
    /\ IF cli.args.cir_only /\ cli.args.rgb_only
       THEN CliRaise("ValueError")
       ELSE cli' = [cli EXCEPT !.pc = "construct"]
    /\ UNCHANGED <<nIn, nOut, bulk, dlVars>>

\* scraper = NAIPScraper(output_dir=..., unzip=..., overwrite=..., cir_only=..., rgb_only=...)
Construct ==
    /\ cli.pc = "construct"
    /\ IF KwargsAccepted(InitKwargs, InitParams)
       THEN cli' = [cli EXCEPT !.pc = "constructed"]
       ELSE CliRaise("TypeError")
    /\ UNCHANGED <<nIn, nOut, bulk, dlVars>>

CliNext == CheckFilters \/ Construct

SpecCli == CliInit /\ [][CliNext]_vars

(***************************************************************************)
(* cli.py: main after the scraper object exists: the list operations, the  *)
(* confirmation of a download of everything, and the download              *)
(***************************************************************************)
CliRunInit ==
    /\ \E a \in {x \in ArgvSets : ~(x.cir_only /\ x.rgb_only)} :
          cli = [pc |-> "constructed", args |-> a, error |-> "none", exit |-> "none",
                 outcome |-> "none", started |-> FALSE]
    /\ NormIdle /\ BulkIdle /\ DlIdle

\* sys.exit(code), and the end of main, which ends the process with status 0
CliExit(outcome, code) == cli' = [cli EXCEPT !.pc = "exited", !.outcome = outcome, !.exit = code]

\* if args.list_years is not None: ... sys.exit(0)
ListYearsOp ==
    /\ cli.pc = "constructed"
    /\ cli.args.list_years # "absent"
    /\ CliExit("listed", "0")
    /\ UNCHANGED <<nIn, nOut, bulk, dlVars>>

\* if args.list_states is not None: ... sys.exit(0), or sys.exit(1) when the
\* value is not an integer
ListStatesOp ==
    /\ cli.pc = "constructed"
    /\ cli.args.list_years = "absent" /\ cli.args.list_states # "absent"
    /\ \E isint \in BOOLEAN :
          IF cli.args.list_states = "value" /\ ~isint
          THEN CliExit("error", "1")
          ELSE CliExit("listed", "0")
    /\ UNCHANGED <<nIn, nOut, bulk, dlVars>>

\* if args.year is None and args.state is None and not args.force:
\*     if not get_user_confirmation(): sys.exit(0)
Confirmation ==
    /\ cli.pc = "constructed"
    /\ cli.args.list_years = "absent" /\ cli.args.list_states = "absent"
    /\ IF ~cli.args.year /\ ~cli.args.state /\ ~cli.args.force
       THEN \E answer \in {"y", "n"} :
               IF answer = "n" THEN CliExit("cancelled", "0")
               ELSE cli' = [cli EXCEPT !.pc = "download"]
       ELSE cli' = [cli EXCEPT !.pc = "download"]
    /\ UNCHANGED <<nIn, nOut, bulk, dlVars>>

\* try: scraper.download_all_states(...) or scraper.download_naip_data(...)
\* except KeyboardInterrupt: sys.exit(1)   except Exception: sys.exit(1)
Download ==
    /\ cli.pc = "download"
    /\ \E out \in {"returned", "KeyboardInterrupt", "Exception"} :
          cli' = [cli EXCEPT !.pc = "exited", !.started = TRUE,
                             !.outcome = IF out = "returned" THEN "downloaded"
                                         ELSE IF out = "Exception" THEN "error"
                                         ELSE "interrupted",
                             !.error = IF out = "returned" THEN "none" ELSE out,
                             !.exit = IF out = "returned" THEN "0" ELSE "1"]
    /\ UNCHANGED <<nIn, nOut, bulk, dlVars>>

CliRunNext == ListYearsOp \/ ListStatesOp \/ Confirmation \/ Download

SpecCliRun == CliRunInit /\ [][CliRunNext]_vars

(***************************************************************************)
(* scraper.py: get_available_years, get_available_states and the bulk      *)
(* operations                                                              *)
(***************************************************************************)
\* the characters of the names in code point order
CodePoints == <<".">> \o Digits \o UpperChars \o <<"_">> \o LowerChars

Ord(c) == IndexIn(c, CodePoints)

\* a < b for str
RECURSIVE StrLess(_, _)
StrLess(a, b) ==
    IF a = <<>> THEN b # <<>>
    ELSE IF b = <<>> THEN FALSE
    ELSE IF a[1] = b[1] THEN StrLess(Tail(a), Tail(b))
    ELSE Ord(a[1]) < Ord(b[1])

DropAt(seq, k) == SubSeq(seq, 1, k - 1) \o SubSeq(seq, k + 1, Len(seq))

\* sorted(names)
RECURSIVE Sorted(_)
Sorted(seq) ==
    IF seq = <<>> THEN <<>>
    ELSE LET k == CHOOSE k \in 1..Len(seq) :
                     /\ \A j \in 1..Len(seq) : ~StrLess(seq[j], seq[k])
                     /\ \A j \in 1..(k - 1) : StrLess(seq[k], seq[j])
         IN <<seq[k]>> \o Sorted(DropAt(seq, k))

\* sorted(years, reverse=True)
RECURSIVE SortedReverse(_)
SortedReverse(seq) ==
    IF seq = <<>> THEN <<>>
    ELSE LET k == CHOOSE k \in 1..Len(seq) :
                     /\ \A j \in 1..Len(seq) : seq[j] <= seq[k]
                     /\ \A j \in 1..(k - 1) : seq[j] < seq[k]
         IN <<seq[k]>> \o SortedReverse(DropAt(seq, k))

\* int(name) succeeds on a name of decimal digits
IsIntName(name) == name # <<>> /\ \A k \in 1..Len(name) : IndexIn(name[k], Digits) > 0

RECURSIVE StrToInt(_)
StrToInt(name) ==
    IF name = <<>> THEN 0
    ELSE 10 * StrToInt(SubSeq(name, 1, Len(name) - 1)) + (IndexIn(name[Len(name)], Digits) - 1)

RECURSIVE Flatten(_)
Flatten(pages) == IF pages = <<>> THEN <<>> ELSE pages[1] \o Flatten(Tail(pages))

Names(items) == [k \in 1..Len(items) |-> items[k].name]

\* the folders of every page of a listing, requested with ?page=1, 2, ...
AllFolders(rem, id) ==
    LET n == get_page_count(Serve(rem, [kind |-> "listing", id |-> id, page |-> 1]))
        pages == [p \in 1..(IF n < 1 THEN 1 ELSE n) |->
                     extract_folders(Serve(rem, [kind |-> "listing", id |-> id, page |-> p]))]
    IN Flatten(pages)

\* the years of the root listing, in listing order
ListedYears(rem) ==
    LET names == SelectSeq(Names(AllFolders(rem, RootId)), IsIntName)
    IN [k \in 1..Len(names) |-> StrToInt(names[k])]

\* get_available_states(year) when no request fails
get_available_states(rem, year) ==
    LET yf == FirstMatch(AllFolders(rem, RootId), LAMBDA f : IsYearFolder(f, year))
        states == Names(AllFolders(rem, yf.id))
    IN IF NotFound(yf) THEN <<>>
       ELSE Sorted(SelectSeq(states, LAMBDA st : Upper(st) \in valid_states))

\* what the remote lists, worked out once for a remote that does not change:
\* the years of the root and the states get_available_states gives for each
Listed(rem) ==
    LET years == ListedYears(rem)
    IN [years |-> years,
        states |-> [y \in {years[k] : k \in 1..Len(years)} \cup {RequestYear} |->
                       get_available_states(rem, y)]]

\* what get_available_states(year) may return: a failed request is caught and
\* gives the empty list
AvailableStates(listed, year) == {listed.states[year], <<>>}

\* a plausible slip: the names are compared as they are
YearHasStateExact(year_states, st) == \E k \in 1..Len(year_states) : year_states[k] = st

\* the year has the state: any(s.upper() == state.upper() for s in year_states)
YearHasState(year_states, st) ==
    \E k \in 1..Len(year_states) : Upper(year_states[k]) = Upper(st)

\* what get_available_years(state) may return: a failed root request gives the
\* empty list, a year whose states cannot be listed is left out
AvailableYears(listed, st) ==
    LET years == listed.years
    IN IF st = None
       THEN {SortedReverse(years), <<>>}
       ELSE { SortedReverse(SelectSeq(years, LAMBDA y : y \in keep)) :
                 keep \in SUBSET { y \in {years[k] : k \in 1..Len(years)} :
                                     YearHasState(listed.states[y], st) } }

BulkOps == {"download_all_states", "download_all_years_for_state",
            "download_all_years_all_states"}

\* what a year folder lists: AL alone, AL and MS, AL and ms
YearFolders ==
    { YearListing(1, {}, <<>>), YearListing(1, {1}, <<"M", "S">>),
      YearListing(1, {1}, <<"m", "s">>) }

(***************************************************************************)
(* scraper.py: get_available_years and get_available_states called on      *)
(* their own, on a root listing and year listings that vary                *)
(***************************************************************************)
MaxRootItems == 3

\* what the root folder may list
RootPool ==
    { Folder(YearId, IntToStr(RequestYear), 0), Folder(OtherYearId, IntToStr(RequestYear - 1), 0),
      Folder("n", <<"d", "o", "c", "s">>, 0), File("readme", <<"r">>) }

\* the sequences of at most n different members of S
RECURSIVE Arrangements(_, _)
Arrangements(S, n) ==
    IF n = 0 THEN {<<>>}
    ELSE {<<>>} \cup UNION { {<<x>> \o rest : rest \in Arrangements(S \ {x}, n - 1)} : x \in S }

\* a listing of `its`, `size` items a page
Paged(its, size) == Chunk(its, size)

\* what a year folder lists here: as in YearFolders, or two pages with MS on the second
QueryYearFolders == YearFolders \cup {YearListing(2, {2}, <<"M", "S">>)}

QueryRemotes ==
    { [root |-> Paged(its, size),
       years |-> (YearId :> y) @@ (OtherYearId :> y0),
       children |-> StateListing(<<MsM>>, 1),
       files |-> FilesListing(<<NameZip>>, 1)] :
        its \in Arrangements(RootPool, MaxRootItems), size \in 1..2,
        y \in QueryYearFolders, y0 \in QueryYearFolders }

NoQuery == [op |-> "none"]

QueryInit ==
    /\ remote \in QueryRemotes
    /\ nIn = None /\ nOut = NoQuery
    /\ arg = [year |-> RequestYear, state |-> <<"M", "S">>]
    /\ cfg = DefaultCfg
    /\ pc = "idle" /\ stage = "Start" /\ result = "running"
    /\ state = None /\ page = 1
    /\ year_folder = NoItem /\ state_folder = NoItem /\ composite_folders = <<>>
    /\ ci = 0 /\ n_files = 0 /\ i = 0 /\ files = <<>> /\ fi = 0
    /\ reqLog = <<>> /\ skipped = 0 /\ failed = FALSE /\ called = <<>>
    /\ last = NoEvent
    /\ fs = EmptyFs /\ rerun = FALSE /\ before = NoBefore
    /\ CliIdle /\ BulkIdle

\* the set of the members of a sequence
Members(seq) == {seq[k] : k \in 1..Len(seq)}

\* get_available_years(state): root_ok tells whether every request for a root
\* page succeeds and parses; probe[y] is what self.get_available_states(y) returns
get_available_years(rem, st, root_ok, probe) ==
    LET years == ListedYears(rem)
    IN IF ~root_ok THEN <<>>
       ELSE IF st = None THEN SortedReverse(years)
       ELSE LET code == validate_state_abbreviation(st)
            IN SortedReverse(SelectSeq(years, LAMBDA y : YearHasState(probe[y], code)))

\* what self.get_available_states(y) may return for each year listed: its list,
\* or the empty list of a request that failed inside it
Probes(rem) ==
    LET ys == Members(ListedYears(rem))
    IN { [y \in ys |-> IF y \in done THEN get_available_states(rem, y) ELSE <<>>] :
           done \in SUBSET ys }

GetYears ==
    /\ nOut = NoQuery
    /\ \E st \in {None, <<"M", "S">>, <<"m", "s">>, <<"a", "l">>, <<"T", "X">>},
          root_ok \in BOOLEAN, probe \in Probes(remote) :
          /\ nIn' = st
          /\ nOut' = [op |-> "get_available_years", root_ok |-> root_ok, probe |-> probe,
                      ret |-> get_available_years(remote, st, root_ok, probe)]
    /\ UNCHANGED <<cli, bulk, dlVars>>

\* year_data.get("pageCount", 1): the key is looked up in the parsed payload
\* itself, which holds the listing under its own key and no "pageCount"
TopLevelPageCount(data) == IF "pageCount" \in DOMAIN data THEN data.pageCount ELSE 1

\* the state folders get_available_states(None) reads of one folder of the
\* root: page 1, 2, ... until a page without folders or page >= the count above
RECURSIVE StatePagesRead(_, _, _)
StatePagesRead(rem, id, pg) ==
    LET year_data == Serve(rem, [kind |-> "listing", id |-> id, page |-> pg])
        state_folders == extract_folders(year_data)
    IN IF state_folders = <<>> THEN <<>>
       ELSE IF pg >= TopLevelPageCount(year_data) THEN state_folders
       ELSE state_folders \o StatePagesRead(rem, id, pg + 1)

\* sorted(list(all_states))
RECURSIVE SortedSet(_)
SortedSet(S) ==
    IF S = {} THEN <<>>
    ELSE LET m == CHOOSE x \in S : \A y \in S : ~StrLess(y, x)
         IN <<m>> \o SortedSet(S \ {m})

\* get_available_states(None): root_ok tells whether the request for the root
\* listing succeeds, bad holds the folders whose listing request fails
get_all_states(rem, root_ok, bad) ==
    LET year_folders == extract_folders(Serve(rem, RootRequest(1)))
        names(f) == IF f.id \in bad THEN {}
                    ELSE { validate_state_abbreviation(n) :
                             n \in Members(Names(StatePagesRead(rem, f.id, 1))) }
        all_states == UNION {names(f) \cap valid_states : f \in Members(year_folders)}
    IN IF ~root_ok THEN <<>> ELSE SortedSet(all_states)

GetStates ==
    /\ nOut = NoQuery
    /\ \E root_ok \in BOOLEAN, bad \in SUBSET {YearId, OtherYearId} :
          /\ nIn' = None
          /\ nOut' = [op |-> "get_available_states", root_ok |-> root_ok, bad |-> bad,
                      ret |-> get_all_states(remote, root_ok, bad)]
    /\ UNCHANGED <<cli, bulk, dlVars>>

QueryNext == GetYears \/ GetStates

SpecQuery == QueryInit /\ [][QueryNext]_vars

Bulk0 == [op |-> "none", pc |-> "start", listed |-> [years |-> <<>>, states |-> <<>>],
          arg |-> None, years |-> <<>>, yi |-> 0,
          year |-> 0, states |-> <<>>, si |-> 0, triedYears |-> <<>>,
          triedStates |-> <<>>, outcomes |-> <<>>, status |-> "running"]

BulkInit ==
    /\ \E y \in YearFolders, y0 \in YearFolders :
          remote = [root |-> GoodRoot,
                    years |-> (YearId :> y) @@ (OtherYearId :> y0),
                    children |-> StateListing(<<MsM>>, 1),
                    files |-> FilesListing(<<NameZip>>, 1)]
    /\ \E op \in BulkOps, st \in {<<"M", "S">>, <<"a", "l">>} :
          bulk = [Bulk0 EXCEPT !.op = op,
                               !.listed = Listed(remote),
                               !.arg = IF op = "download_all_years_for_state" THEN st ELSE None,
                               !.year = IF op = "download_all_states" THEN RequestYear ELSE 0,
                               !.pc = IF op = "download_all_states" THEN "states" ELSE "start"]
    /\ arg = [year |-> RequestYear, state |-> <<"M", "S">>]
    /\ cfg = DefaultCfg
    /\ pc = "idle" /\ stage = "Start" /\ result = "running"
    /\ state = None /\ page = 1
    /\ year_folder = NoItem /\ state_folder = NoItem /\ composite_folders = <<>>
    /\ ci = 0 /\ n_files = 0 /\ i = 0 /\ files = <<>> /\ fi = 0
    /\ reqLog = <<>> /\ skipped = 0 /\ failed = FALSE /\ called = <<>>
    /\ last = NoEvent
    /\ fs = EmptyFs /\ rerun = FALSE /\ before = NoBefore
    /\ NormIdle /\ CliIdle

bulkFrame == <<nIn, nOut, cli, dlVars>>

\* the operation returns to its caller
BulkReturned(b) == [b EXCEPT !.pc = "end", !.status = "returned"]

\* available_years = self.get_available_years(...); if not available_years: return
BulkResolveYears ==
    /\ bulk.pc = "start"
    /\ \E st \in {IF bulk.arg = None THEN None ELSE validate_state_abbreviation(bulk.arg)} :
       \E ys \in AvailableYears(bulk.listed, st) :
          bulk' = IF ys = <<>> THEN BulkReturned(bulk)
                  ELSE [bulk EXCEPT !.arg = st, !.years = ys, !.yi = 1, !.pc = "year_loop"]
    /\ UNCHANGED bulkFrame

\* download_all_states: available_states = self.get_available_states(year);
\* if not available_states: return
BulkResolveStates ==
    /\ bulk.pc = "states"
    /\ \E ss \in AvailableStates(bulk.listed, bulk.year) :
          bulk' = IF ss = <<>>
                  THEN [bulk EXCEPT !.states = ss, !.si = 1, !.triedStates = <<>>,
                                    !.pc = "states_done"]
                  ELSE [bulk EXCEPT !.states = ss, !.si = 1, !.triedStates = <<>>,
                                    !.pc = "state_loop"]
    /\ UNCHANGED bulkFrame

\* download_all_states: one pass of `for state in available_states`
BulkStateBody ==
    /\ bulk.pc = "state_loop" /\ bulk.si <= Len(bulk.states)
    /\ bulk' = [bulk EXCEPT !.triedStates = Append(@, bulk.states[bulk.si]), !.pc = "wait"]
    /\ DlCall(bulk.year, bulk.states[bulk.si])
    /\ UNCHANGED <<nIn, nOut, cli, remote, cfg, fs, rerun, before>>

\* one pass of `for year in available_years`
BulkYearBody ==
    /\ bulk.pc = "year_loop" /\ bulk.yi <= Len(bulk.years)
    /\ LET year == bulk.years[bulk.yi]
           tried == Append(bulk.triedYears, year)
       IN IF bulk.op = "download_all_years_all_states"
          THEN /\ bulk' = [bulk EXCEPT !.triedYears = tried, !.year = year, !.pc = "states"]
               /\ UNCHANGED bulkFrame
          ELSE \E year_states \in AvailableStates(bulk.listed, year) :
                  IF \E k \in 1..Len(year_states) : year_states[k] = bulk.arg
                  THEN /\ bulk' = [bulk EXCEPT !.triedYears = tried, !.year = year,
                                               !.pc = "wait"]
                       /\ DlCall(year, bulk.arg)
                       /\ UNCHANGED <<nIn, nOut, cli, remote, cfg, fs, rerun, before>>
                  ELSE /\ bulk' = [bulk EXCEPT !.triedYears = tried, !.year = year,
                                               !.yi = @ + 1,
                                               !.outcomes =
                                                   Append(@, IF year_states = <<>>
                                                             THEN "no_states"
                                                             ELSE "not_available")]
                       /\ UNCHANGED bulkFrame

\* download_state_data has ended: what it raised meets `except Exception` of the
\* loop, and of the loop of download_all_years_all_states around that
BulkAfterCall ==
    /\ bulk.pc = "wait" /\ pc = "done"
    /\ pc' = "idle"
    /\ bulk' =
          IF \E cls \in ErrorClasses : result = Raised(cls) /\ ~CatchesException(cls)
          THEN [bulk EXCEPT !.pc = "end", !.status = "raised",
                            !.outcomes = Append(@, result)]
          ELSE IF bulk.op = "download_all_years_for_state"
          THEN [bulk EXCEPT !.yi = @ + 1, !.pc = "year_loop", !.outcomes = Append(@, result)]
          ELSE [bulk EXCEPT !.si = @ + 1, !.pc = "state_loop", !.outcomes = Append(@, result)]
    /\ UNCHANGED <<nIn, nOut, cli, envVars, stage, result, state, page, year_folder,
                   state_folder, composite_folders, ci, n_files, i, files, fi, reqLog, fs,
                   skipped, failed, called, last>>

\* a loop has run out of targets
BulkLoopEnd ==
    /\ \/ /\ bulk.pc = "state_loop" /\ bulk.si > Len(bulk.states)
          /\ bulk' = [bulk EXCEPT !.pc = "states_done"]
       \/ /\ bulk.pc = "states_done"
          /\ bulk' = IF bulk.op = "download_all_states" THEN BulkReturned(bulk)
                     ELSE [bulk EXCEPT !.yi = @ + 1, !.pc = "year_loop"]
       \/ /\ bulk.pc = "year_loop" /\ bulk.yi > Len(bulk.years)
          /\ bulk' = BulkReturned(bulk)
    /\ UNCHANGED bulkFrame

BulkNext ==
    \/ BulkResolveYears \/ BulkResolveStates \/ BulkStateBody \/ BulkYearBody
    \/ BulkAfterCall \/ BulkLoopEnd
    \/ (bulk.pc = "wait" /\ DlNext)

\* the interpreter runs the operation to its end
SpecBulk == BulkInit /\ [][BulkNext]_vars /\ WF_vars(BulkNext)

(***************************************************************************)
(* Claims                                                                  *)
(***************************************************************************)
\* C4 as stated: validate_state_abbreviation returns the upper-cased form of every
\* non-empty code, whether or not that form is one of the 50 states
C4_UpperCasesEveryCode ==
    (nOut # Pending /\ nIn # <<>>) => nOut = Upper(nIn)

\* C4 amended: a non-empty code whose upper-cased form is one of the 50 states is
\* returned upper-cased; any other non-empty code is returned as it was passed
C4_UpperCasesKnownCodesOnly ==
    (nOut # Pending /\ nIn # <<>>) =>
        /\ Upper(nIn) \in valid_states => nOut = Upper(nIn)
        /\ Upper(nIn) \notin valid_states => nOut = nIn

\* the call of "zz" has returned "zz"
C4_Witness == nIn = <<"z", "z">> /\ nOut = <<"z", "z">>

(***************************************************************************)
(* What the claims speak of, read off the remote tree and the request log  *)
(***************************************************************************)
\* the folders the state folder's listing holds
Children == SelectSeq(remote.children[1], LAMBDA it : it.type = "folder")

NameHas(folder, suffix) == Contains(Lower(folder.name), Lower(arg.state) \o suffix)

HasM(folder) == NameHas(folder, <<"_", "m">>)

HasCN(folder) == NameHas(folder, <<"_", "c">>) \/ NameHas(folder, <<"_", "n">>)

IsPrefix(a, b) == Len(a) <= Len(b) /\ a = SubSeq(b, 1, Len(a))

Resolved == stage \in {"CompositesResolved", "Downloading", "Done"}

\* the root pages that hold a folder named str(year)
RootHolds(p) ==
    \E k \in 1..Len(remote.root[p]) :
        remote.root[p][k].type = "folder" /\ remote.root[p][k].name = IntToStr(arg.year)

\* the year folder's pages that hold the state folder, ignoring case
YearHolds(p) ==
    \E k \in 1..Len(remote.years[YearId][p]) :
        /\ remote.years[YearId][p][k].type = "folder"
        /\ Upper(remote.years[YearId][p][k].name) = Upper(arg.state)

RequestsTo(ids) == SelectSeq(reqLog, LAMBDA r : r.kind = "listing" /\ r.id \in ids)

FileFetches == SelectSeq(reqLog, LAMBDA r : r.kind = "file")

PagesServed(reqs) == [j \in 1..Len(reqs) |-> ServedPage(reqs[j])]

\* the directories download_state_data makes for the composite folders `folders`
MadeDirs(folders) ==
    {output_dir, year_dir(arg.year), state_dir(arg.year, state)}
    \cup {composite_dir(arg.year, state, folders[k]) : k \in 1..Len(folders)}

\* C1: if a child of the state folder is a multispectral folder, exactly one
\* composite folder is downloaded and it is a multispectral one, whatever CIR/RGB
\* folders stand before or after it; otherwise the folders downloaded are the
\* CIR/RGB children, in listing order
C1_MultispectralExclusive ==
    LET expected == SelectSeq(Children, HasCN)
        anyM == \E k \in 1..Len(Children) : HasM(Children[k])
        right(chosen) == IF anyM THEN Len(chosen) = 1 /\ HasM(chosen[1])
                         ELSE chosen = expected
    IN /\ IsPrefix(called, composite_folders)
       /\ Resolved => right(composite_folders)
       /\ (pc = "done" /\ result = "ok") => right(called)
       /\ (pc = "done" /\ result = "no_composites") => (~anyM /\ expected = <<>>)

\* a multispectral folder with a CIR folder before it and an RGB folder after it,
\* and the download is over
C1_Witness ==
    /\ pc = "done" /\ result = "ok"
    /\ Len(Children) = 3
    /\ HasCN(Children[1]) /\ HasM(Children[2]) /\ HasCN(Children[3])
    /\ called = <<Children[2]>>

\* C3: once the year is resolved or reported not found, the root pages requested
\* are 1..k in order, k the first page holding the year folder (1..N when no page
\* holds it), the year is found exactly when some page holds it, and the folder
\* used is the one on page k
C3_RootPagesInOrder ==
    LET n == Len(remote.root)
        held == {p \in 1..n : RootHolds(p)}
        k == IF held = {} THEN n ELSE CHOOSE p \in held : \A q \in held : p <= q
    IN (stage # "Start" \/ (pc = "done" /\ result = "year_not_found")) =>
          /\ PagesServed(RequestsTo({RootId})) = [j \in 1..k |-> j]
          /\ (stage # "Start") <=> (held # {})
          /\ (stage # "Start") => year_folder.id = YearId

\* C5: a composite folder that declares no files gets no request at all, neither
\* for its listing nor for a file, and nothing is downloaded, skipped or written
C5_NoFilesNoFetch ==
    (called # <<>> /\ \A k \in 1..Len(called) : called[k].filesCount = 0) =>
        /\ FileFetches = <<>>
        /\ RequestsTo(CompositeIds) = <<>>
        /\ skipped = 0
        /\ last = NoEvent
        /\ DOMAIN fs \subseteq MadeDirs(called)
        /\ \A q \in DOMAIN fs : fs[q] = "dir"

\* a folder that declares no files while its listing holds one has been handled
C5_Witness ==
    /\ pc = "done" /\ result = "ok"
    /\ called # <<>> /\ called[1].filesCount = 0
    /\ extract_files(Serve(remote, FilesRequest(called[1], 1))) # <<>>

\* C6: processing a file issues its byte download exactly when overwrite is set or
\* neither the destination path nor the extraction directory exists at that time;
\* a file that is skipped counts as processed
C6_SkipRule ==
    [][ (pc = "file" /\ fi <= Len(files) /\ i < n_files) =>
          LET file == files[fi]
              filepath == FilePath(composite_dir(arg.year, state, composite_folders[ci]), file)
              issued == reqLog' = Append(reqLog, FileRequest(file))
              free == ~Exists(fs, filepath) /\ ~Exists(fs, FolderName(filepath))
          IN /\ issued <=> (cfg.overwrite \/ free)
             /\ ~issued => /\ reqLog' = reqLog /\ fs' = fs
                           /\ i' = i + 1 /\ skipped' = skipped + 1 ]_vars

\* a file was skipped because its extraction directory exists, the archive gone
C6_Witness ==
    /\ last.did = "skipped"
    /\ ~cfg.overwrite
    /\ Exists(fs, FolderName(last.path))
    /\ ~Exists(fs, last.path)
    /\ skipped = 1 /\ i = 2

\* C7: after a first run with overwrite=False that ended without any error, the
\* same command run again issues no byte download and leaves the tree as it was
C7_RerunChangesNothing ==
    ( /\ rerun
      /\ before.result = "ok" /\ ~before.failed
      /\ ~before.cfg.overwrite /\ cfg = before.cfg ) =>
        /\ FileFetches = <<>>
        /\ fs = before.fs

\* C8: with unzip on, after a downloaded file named *.zip is processed, either the
\* extraction succeeded, the extraction directory exists and the archive is gone,
\* or it failed and the archive is still there; a failed extraction raises nothing
\* out of the file loop, which goes on to the next file
C8_ExtractionOutcome ==
    /\ [] ( ( /\ last.did = "downloaded"
              /\ cfg.unzip
              /\ EndsWith(last.path, <<".", "z", "i", "p">>) ) =>
               \/ /\ last.zip \in {"extracted", "extracted_empty"}
                  /\ Exists(fs, FolderName(last.path)) /\ ~Exists(fs, last.path)
               \/ /\ last.zip \in {"bad_zip", "error_before", "error_after"}
                  /\ Exists(fs, last.path) )
    /\ [][ ( /\ pc = "file" /\ fi <= Len(files) /\ i < n_files
             /\ last'.did = "downloaded"
             /\ last'.zip \in {"bad_zip", "error_before", "error_after"} ) =>
               /\ pc' = "file" /\ i' = i + 1 /\ fi' = fi + 1
               /\ failed' = failed /\ result' = result ]_vars

\* a file of an archive that is no archive was downloaded and kept, and the next
\* file of the page was downloaded after it
C8_Witness ==
    /\ last.did = "downloaded" /\ i = 2
    /\ \E q \in DOMAIN fs : q # last.path /\ fs[q] = "file" /\ IsZipName(q)
    /\ cfg.unzip

StageSteps ==
    { <<"Start", "YearResolved">>, <<"YearResolved", "StateResolved">>,
      <<"StateResolved", "CompositesResolved">>, <<"CompositesResolved", "Downloading">>,
      <<"Downloading", "Done">> }

\* nothing of the download proper has happened: no directory, no file, no folder
\* handed to _download_all_files_in_folder
Quiet == fs = EmptyFs /\ FileFetches = <<>> /\ called = <<>> /\ RequestsTo(CompositeIds) = <<>>

\* C10: the stages of one download follow Start, YearResolved, StateResolved,
\* CompositesResolved, Downloading, Done; a year, state or composite folder that
\* is not there ends the download at its stage, with no request of a later stage,
\* no directory made and no file downloaded
C10_StageOrder ==
    /\ [][stage' # stage => <<stage, stage'>> \in StageSteps]_vars
    /\ [] LET yearAbsent == \A p \in 1..Len(remote.root) : ~RootHolds(p)
              stateAbsent == \A p \in 1..Len(remote.years[YearId]) : ~YearHolds(p)
              noComposite == \A k \in 1..Len(Children) : ~HasM(Children[k]) /\ ~HasCN(Children[k])
          IN /\ yearAbsent =>
                  stage = "Start" /\ reqLog = RequestsTo({RootId}) /\ Quiet
             /\ stateAbsent =>
                  /\ stage \in {"Start", "YearResolved"}
                  /\ reqLog = RequestsTo({RootId, YearId}) /\ Quiet
             /\ noComposite =>
                  /\ stage \in {"Start", "YearResolved", "StateResolved"}
                  /\ reqLog = RequestsTo({RootId, YearId, StateId}) /\ Quiet
             /\ (pc = "done" /\ result = "year_not_found") =>
                  stage = "Start" /\ reqLog = RequestsTo({RootId}) /\ Quiet
             /\ (pc = "done" /\ result = "state_not_found") =>
                  stage = "YearResolved" /\ reqLog = RequestsTo({RootId, YearId}) /\ Quiet
             /\ (pc = "done" /\ result = "no_composites") =>
                  /\ stage = "StateResolved"
                  /\ reqLog = RequestsTo({RootId, YearId, StateId}) /\ Quiet
             /\ (pc = "done" /\ result = "ok") <=> stage = "Done"

\* the state folder is on no page of a year listing of several pages, and the
\* download has ended there
C10_Witness ==
    /\ pc = "done" /\ result = "state_not_found" /\ stage = "YearResolved"
    /\ Len(remote.years[YearId]) > 1
    /\ Len(RequestsTo({YearId})) = Len(remote.years[YearId])

\* the names of the composite folders handed to _download_all_files_in_folder
CalledNames == [k \in 1..Len(called) |-> called[k].name]

\* the children of the state folder whose name holds '<state>' followed by tail
ChildrenWith(tail) ==
    SelectSeq(Names(Children), LAMBDA nm : Contains(Lower(nm), Lower(arg.state) \o tail))

\* a command line that asks for the download of one state in one filter mode
FilterRequest(a) ==
    /\ a.year /\ a.state /\ a.list_years = "absent" /\ a.list_states = "absent"
    /\ a.cir_only # a.rgb_only

\* C2: when main has ended on a --cir-only (--rgb-only) request for a state whose
\* children hold no '_m' folder, the composite folders downloaded are the
\* '<state>_c' ('<state>_n') children and no other
C2_FilterModeHonoured ==
    (cli.pc = "exited" /\ FilterRequest(cli.args)
        /\ ~\E k \in 1..Len(Children) : HasM(Children[k]))
        => CalledNames = ChildrenWith(IF cli.args.cir_only THEN <<"_", "c">>
                                      ELSE <<"_", "n">>)

\* C9: a bulk operation never ends by raising, the targets attempted are at every
\* moment the first targets of the resolved list in the list's order, a loop that
\* has ended has attempted every target of its list, and the operation returns
BulkOrderly ==
    /\ bulk.status # "raised"
    /\ IsPrefix(bulk.triedYears, bulk.years)
    /\ IsPrefix(bulk.triedStates, bulk.states)
    /\ (bulk.pc = "states_done" => bulk.triedStates = bulk.states)
    /\ (bulk.status = "returned" => bulk.triedYears = bulk.years)

C9_BulkNeverAborts == []BulkOrderly /\ <>(bulk.status = "returned")

\* a bulk operation has returned after an error ended its first target and a
\* later target was downloaded
C9_Witness ==
    /\ bulk.status = "returned"
    /\ Len(bulk.outcomes) >= 2
    /\ bulk.outcomes[1] = "error"
    /\ bulk.outcomes[Len(bulk.outcomes)] = "ok"

\* the call is inside _download_all_files_in_folder
InFolder == pc \in {"page", "file"}

\* C11: the composite folders handed to _download_all_files_in_folder are at every
\* moment the first ones of the resolved list, in its order and each once; whatever
\* ends the work on a folder, a failed listing, file request or write included,
\* control returns to the loop over the folders, which goes on to the next folder
\* while there is one; a call that ends normally has handled every resolved folder
C11_CompositesInOrder ==
    /\ [](IsPrefix(called, composite_folders)
          /\ (pc \in {"folder", "page", "file", "return"}
                => Len(called) = (IF pc = "folder" THEN ci - 1 ELSE ci))
          /\ (result = "ok" => called = composite_folders))
    /\ [][ /\ (InFolder /\ ~InFolder') => pc' = "return"
           /\ (pc = "return" /\ ci < Len(composite_folders))
                 => (pc' = "folder" /\ ci' = ci + 1) ]_vars

\* the first of two resolved folders met a file-level failure and the second is
\* being downloaded
C11_Witness ==
    /\ Len(composite_folders) = 2
    /\ ci = 2 /\ InFolder /\ failed
    /\ Len(called) = 2

\* the files of the composite folder's listing
ListedFiles == SelectSeq(Flatten(remote.files), LAMBDA it : it.type = "file")

\* the local path of a listed file in the one composite folder resolved
LocalPath(file) == FilePath(composite_dir(arg.year, state, composite_folders[1]), file)

\* the tree holds the complete file or its complete extraction
Complete(f, filepath) ==
    \/ Exists(f, filepath) /\ f[filepath] = "file"
    \/ Exists(f, FolderName(filepath)) /\ f[FolderName(filepath)] = "dir"

\* the path holds what a terminated write or a terminated extraction left
HalfDone(f, filepath) ==
    \/ Exists(f, filepath) /\ f[filepath] = "partial"
    \/ Exists(f, FolderName(filepath)) /\ f[FolderName(filepath)] = "partial_dir"

\* C12: when a run was terminated from outside and the same command is rerun with
\* overwrite=False, the rerun skips no file whose path or extraction directory was
\* left half done, and when it has ended without any error the tree holds for
\* every file of the listing the complete file or its complete extraction
C12_ResumeCompletes ==
    /\ (rerun /\ before.result = "killed" /\ last.did = "skipped")
          => ~HalfDone(fs, last.path)
    /\ ( /\ rerun /\ before.result = "killed"
         /\ pc = "done" /\ result = "ok" /\ ~failed ) =>
           \A k \in 1..Len(ListedFiles) : Complete(fs, LocalPath(ListedFiles[k]))

\* the rerun has ended without error although it skipped a file the terminated run
\* had left half written
C12_PartialTakenAsDone ==
    /\ rerun /\ before.result = "killed"
    /\ pc = "done" /\ result = "ok" /\ ~failed
    /\ \E q \in DOMAIN fs : fs[q] \in {"partial", "partial_dir"}
    /\ \A q \in DOMAIN before.fs : before.fs[q] # "file"

\* the page numbers of the listing requests sent for one folder, in order
PagesAsked(id) ==
    LET reqs == RequestsTo({id}) IN [j \in 1..Len(reqs) |-> reqs[j].page]

\* C13: the listing pages asked of each folder handed to
\* _download_all_files_in_folder are 1, 2, 3, ...: no page twice and none skipped
C13_FilePagesOnce ==
    \A k \in 1..Len(called) :
        PagesAsked(called[k].id) = [j \in 1..Len(PagesAsked(called[k].id)) |-> j]


CountType(its, k, t) == Cardinality({j \in 1..k : its[j].type = t})

\* C15: extract_folders returns exactly the items of type folder and
\* extract_files exactly the items of type file, each in the listing's order:
\* the two results hold items of their own type only, every item of the listing
\* is the next item of the result of its type, nothing else is in either, and no
\* call changes the listing
C15_Partition ==
    /\ [](LET its == nIn.shared_folder.items
              fo == nOut.folders
              fi_ == nOut.files
          IN /\ "folders" \in nOut.called =>
                   /\ \A k \in 1..Len(fo) : fo[k].type = "folder"
                   /\ Len(fo) = CountType(its, Len(its), "folder")
                   /\ \A k \in 1..Len(its) :
                         its[k].type = "folder" => fo[CountType(its, k, "folder")] = its[k]
             /\ "files" \in nOut.called =>
                   /\ \A k \in 1..Len(fi_) : fi_[k].type = "file"
                   /\ Len(fi_) = CountType(its, Len(its), "file")
                   /\ \A k \in 1..Len(its) :
                         its[k].type = "file" => fi_[CountType(its, k, "file")] = its[k]
             /\ nOut.called = {"folders", "files"} =>
                   /\ Len(fo) + Len(fi_) = Len(its)
                   /\ \A k \in 1..Len(fo) : \A j \in 1..Len(fi_) : fo[k] # fi_[j])
    /\ [][nIn' = nIn]_vars

\* both functions have been called on a listing that mixes folders and files
C15_Witness ==
    /\ nOut.called = {"folders", "files"}
    /\ Len(nIn.shared_folder.items) = MaxItems
    /\ Len(nOut.folders) >= 1 /\ Len(nOut.files) >= 1
    /\ nIn.shared_folder.items[1].type = "file"

\* the last script block holds the marker
HasMarker(script) == \E k \in 1..Len(script) : script[k] = Marker

\* C16: parse_json_response ends in an error, never in a returned listing, when
\* the document has no script block, when the last script block lacks the
\* marker, and when the text between the marker and the last ';' is not JSON
C16_ParseRejects ==
    ( /\ nOut.raised # "pending"
      /\ \/ Len(nIn) = 0
         \/ ~HasMarker(nIn[Len(nIn)])
         \/ ~JsonLoads(BeforeLastSemi(AfterMarker(nIn[Len(nIn)]))) )
    => nOut.raised # "none"

\* a listing was returned from a last script block that lacks the marker
C16_UnmarkedAccepted ==
    /\ nOut.raised = "none" /\ Len(nIn) = 2 /\ ~HasMarker(nIn[2]) /\ nIn[2] = <<JsonText, ";">>

\* the pages of the year folder's listing that hold the state folder
HoldingPages == {p \in 1..Len(remote.years[YearId]) : YearHolds(p)}

\* the first page that holds the state folder, the last page when none does
LastPageNeeded ==
    IF HoldingPages = {} THEN Len(remote.years[YearId])
    ELSE CHOOSE p \in HoldingPages : \A q \in HoldingPages : p <= q

StateFound == stage \in {"StateResolved", "CompositesResolved", "Downloading", "Done"}

\* C17: the pages asked of the year folder are 1, 2, ... in order and never go
\* past the first page that holds a folder named as the state ignoring case; the
\* state folder is found only on such a page and after pages 1..k exactly; the
\* state is reported not found only when no page holds it, after pages 1..N, and
\* then no listing of a state folder or a composite folder is requested
C17_StateResolution ==
    LET asked == PagesAsked(YearId) IN
    /\ asked = [j \in 1..Len(asked) |-> j]
    /\ Len(asked) <= LastPageNeeded
    /\ StateFound =>
          /\ HoldingPages # {}
          /\ Len(asked) = LastPageNeeded
          /\ state_folder.id = StateId
          /\ Upper(state_folder.name) = Upper(arg.state)
    /\ (pc = "done" /\ result = "state_not_found") =>
          /\ HoldingPages = {}
          /\ Len(asked) = Len(remote.years[YearId])
          /\ RequestsTo(StateIds \cup CompositeIds) = <<>>
          /\ FileFetches = <<>>

\* the state folder, named in another letter case than the code passed, was
\* found on the second page of three
C17_Witness ==
    /\ StateFound /\ Len(remote.years[YearId]) = 3 /\ HoldingPages = {2, 3}
    /\ arg.state = <<"M", "S">> /\ state_folder.name = <<"m", "s">>
    /\ PagesAsked(YearId) = <<1, 2>>

\* output_dir/<year>/<st>/<composite folder name>/<file name>
LayoutPath(st, folder, file) ==
    JoinPath(JoinPath(JoinPath(JoinPath(output_dir, IntToStr(arg.year)), st), folder.name),
             file.name)

\* C18 as the specification states it: every file written is written at
\* output_dir/<year>/<STATE>/<composite folder name>/<file name> with <STATE>
\* the upper-cased state code, for every code passed
C18_PathUpperCased ==
    [][ (pc = "file" /\ i' = i + 1 /\ last'.did = "downloaded") =>
           last'.path = LayoutPath(Upper(arg.state), composite_folders[ci], last'.file) ]_vars

\* C18: every file written is written at
\* output_dir/<year>/<state>/<composite folder name>/<file name>, where <state>
\* is the upper-cased code when that is one of the 50 states and the code as
\* passed otherwise; the path is a function of year, state, folder and file
C18_PathLayout ==
    [][ (pc = "file" /\ i' = i + 1 /\ last'.did = "downloaded") =>
           /\ last'.path = LayoutPath(IF Upper(arg.state) \in valid_states
                                      THEN Upper(arg.state) ELSE arg.state,
                                      composite_folders[ci], last'.file)
           /\ \A q \in DOMAIN fs' \ DOMAIN fs : q \in {last'.path, FolderName(last'.path)} ]_vars

\* a file of a lower-case code outside the 50 states was written under that
\* code as passed
C18_Witness ==
    /\ last.did = "downloaded" /\ arg.state = <<"z", "z">>
    /\ last.path = <<"d", "/", "2", "0", "2", "1", "/", "z", "z", "/",
                     "z", "z", "_", "m", "/", "a">>

BothFilters == cli.args.cir_only /\ cli.args.rgb_only

\* C19: with both --cir-only and --rgb-only given, whatever the other flags,
\* main ends with the ValueError straight after parsing: the scraper is never
\* constructed, no request is issued and no scraper operation runs
C19_ConflictFailsFirst ==
    /\ [](BothFilters =>
            /\ cli.pc \in {"parsed", "exited"}
            /\ cli.pc = "exited" => (cli.error = "ValueError" /\ cli.exit = "1")
            /\ reqLog = <<>> /\ DlIdle /\ BulkIdle)
    /\ [][(BothFilters /\ cli.pc = "parsed") => cli'.pc = "exited"]_vars

\* a command line with both filters, and --force and --overwrite as well, has failed
C19_Witness ==
    /\ BothFilters /\ cli.args.force /\ cli.args.overwrite /\ cli.args.year
    /\ cli.pc = "exited" /\ cli.error = "ValueError"

C20_CancelExitsZero ==
    cli.pc = "exited" /\ cli.outcome = "cancelled" /\ cli.exit = "0" /\ ~cli.started

\* a list option is given and the two filters are not both given
ListOnly ==
    /\ cli.args.list_years # "absent" \/ cli.args.list_states # "absent"
    /\ ~(cli.args.cir_only /\ cli.args.rgb_only)

\* C21: a run with --list-years or --list-states, and no conflicting filters,
\* ends with exit code 0 and without an error, and never comes to the
\* confirmation or to a download
C21_ListOnlyExitsZero ==
    ListOnly =>
        /\ cli.pc = "exited" => (cli.exit = "0" /\ cli.error = "none")
        /\ cli.pc # "download"

\* a run with --list-years alone has ended with the TypeError of the
\* construction and status 1
C21_ListFailsAtConstruction ==
    /\ ListOnly /\ cli.args.list_years = "bare" /\ cli.args.list_states = "absent"
    /\ cli.pc = "exited" /\ cli.error = "TypeError" /\ cli.exit = "1"

\* the names of the folders on every page of the root listing that are integers
RootYearNames ==
    { it.name : it \in { x \in Members(Flatten(remote.root)) :
                            x.type = "folder" /\ IsIntName(x.name) } }

Descending(seq) == \A k \in 1..(Len(seq) - 1) : seq[k] >= seq[k + 1]

\* the probe of year y returned a list that holds the state, ignoring case
ProbeHolds(y) ==
    \E k \in 1..Len(nOut.probe[y]) : Upper(nOut.probe[y][k]) = Upper(nIn)

C23_FailurePropagates ==
    (pc = "done" /\ failed /\ called = <<>>) =>
        result \in {Raised(cls) : cls \in ErrorClasses}

\* the request for the root listing failed and the call returned normally
C23_FailureSwallowed ==
    pc = "done" /\ failed /\ result = "error" /\ Len(reqLog) = 1 /\ stage = "Start"

\* the call has left the page loop of the folder
LeftLoop == pc \in {"return", "done"}

\* C24: _download_all_files_in_folder terminates: a call that is inside the
\* page loop leaves it.  Every pass of the page
\* loop leaves the loop or processes at least one file: a page request leaves
\* the loop or gives a page with a file to a counter still below filesCount,
\* each file processed adds one to the counter or leaves the loop, and the
\* pass ends only after one file at least
C24_FolderLoopTerminates ==
    /\ (InFolder ~> LeftLoop)
    /\ [][ /\ (pc = "page" /\ i < n_files) =>
                \/ LeftLoop'
                \/ pc' = "file" /\ fi' = 1 /\ Len(files') >= 1 /\ i' = i /\ page' = page
           /\ (pc = "file" /\ pc' = "file") => (i' = i + 1 /\ fi' = fi + 1)
           /\ (pc = "file" /\ pc' # "file") =>
                \/ LeftLoop'
                \/ pc' = "page" /\ fi >= 2 /\ i >= fi - 1 /\ page' = page + 1 /\ i' = i
         ]_vars

\* a folder that declares more files than its listing holds has been left after
\* a page without files
C24_Witness ==
    /\ pc = "return" /\ ~failed /\ Len(called) = 1
    /\ n_files > Len(ListedFiles) /\ i = Len(ListedFiles) /\ i >= 1
    /\ page >= 2

\* the place of a file in the composite folder's listing, 0 when it is not listed
PlaceOf(file) ==
    IF \E k \in 1..Len(ListedFiles) : ListedFiles[k] = file
    THEN CHOOSE k \in 1..Len(ListedFiles) : ListedFiles[k] = file
    ELSE 0

RECURSIVE SumFilesCount(_)
SumFilesCount(folders) ==
    IF folders = <<>> THEN 0 ELSE Head(folders).filesCount + SumFilesCount(Tail(folders))

\* C25: the processed-file counter never exceeds the folder's declared
\* filesCount: inside a folder i <= n_files = filesCount, the files fetched and
\* the files skipped together never outnumber the files declared by the folders
\* entered, and a file that is downloaded or skipped is among the first
\* filesCount files of the listing
C25_CounterBounded ==
    /\ (pc \in {"page", "file", "return"} /\ Len(called) = ci) =>
          /\ n_files = composite_folders[ci].filesCount
          /\ i <= n_files
    /\ Len(FileFetches) + skipped <= SumFilesCount(called)
    /\ last.did \in {"downloaded", "skipped", "failed"} => PlaceOf(last.file) \in 1..n_files

\* the listing holds two files, the folder declares one: one file was processed
\* and the folder was left without an error
C25_Witness ==
    /\ pc = "return" /\ ~failed /\ Len(called) = 1
    /\ n_files = 1 /\ Len(ListedFiles) = 2 /\ i = 1
    /\ Len(FileFetches) + skipped = 1

\* the states, upper-cased, that get_available_states(year) returns for the
\* years of every page of the root listing
StatesOfEveryYear ==
    UNION { {Upper(s) : s \in Members(get_available_states(remote, y))} :
              y \in Members(ListedYears(remote)) }

\* C26: when no request fails, get_available_states with no year returns the
\* same set of state codes, compared ignoring case, as the union of
\* get_available_states(year) over the year folders of every page of the root
C26_AllStatesIsUnion ==
    (nOut.op = "get_available_states" /\ nOut.root_ok /\ nOut.bad = {}) =>
        {Upper(s) : s \in Members(nOut.ret)} = StatesOfEveryYear

\* no request failed, the one year folder lists MS on its second page, and the
\* states returned without a year do not include MS
C26_SecondPageMissed ==
    /\ nOut.op = "get_available_states" /\ nOut.root_ok /\ nOut.bad = {}
    /\ Len(remote.root) = 1
    /\ <<"M", "S">> \in StatesOfEveryYear
    /\ <<"M", "S">> \notin Members(nOut.ret)

\* C27: download_all_years_for_state calls download_state_data for every year
\* that get_available_years(state) returned: no year whose states were listed
\* is passed over as not having the state
C27_EveryYearDownloaded ==
    bulk.op = "download_all_years_for_state" =>
        \A k \in 1..Len(bulk.outcomes) : bulk.outcomes[k] # "not_available"

\* the request is for MS, the year's state folder is named ms, and the year was
\* passed over without a call of download_state_data
C27_LowerCaseYearSkipped ==
    /\ bulk.op = "download_all_years_for_state" /\ bulk.status = "returned"
    /\ bulk.arg = <<"M", "S">>
    /\ \E k \in 1..Len(bulk.outcomes) :
          /\ bulk.outcomes[k] = "not_available"
          /\ <<"m", "s">> \in Members(bulk.listed.states[bulk.triedYears[k]])

\* a step that adds a request, if any, adds one for the folder being processed
\* or for a file while its files are being processed
OwnRequest ==
    reqLog' # reqLog =>
        /\ Len(reqLog') = Len(reqLog) + 1
        /\ LET r == reqLog'[Len(reqLog')]
           IN \/ r.kind = "listing" /\ r.id = composite_folders[ci].id
              \/ r.kind = "file" /\ pc = "file"

\* what holds of every step once an error was raised inside the page loop: the
\* error step itself leaves the loop, a folder that was left is not entered
\* again, nothing is requested between two folders, and inside a folder only
\* that folder's pages and files are requested
LoopErrorEndsFolder ==
    /\ (InFolder /\ ~failed /\ failed') => (pc' = "return" /\ Len(reqLog') <= Len(reqLog) + 1)
    /\ (InFolder /\ last'.did = "failed" /\ i' = i /\ fi' = fi /\ pc = "file") => pc' = "return"
    /\ pc = "return" => (reqLog' = reqLog /\ pc' \in {"folder", "done"})
    /\ (pc = "return" /\ pc' = "folder") => ci' = ci + 1
    /\ pc \in {"folder", "page", "file"} => (ci' = ci /\ OwnRequest)

NeverRaises == result \notin {Raised(cls) : cls \in ErrorClasses}

\* C28 as the specification states it: after the first error raised in
\* _download_all_files_in_folder, the request that labels the progress bar
\* included, no further listing page and no file of the folder is requested,
\* and the call returns without raising
C28_AnyErrorEndsFolder ==
    /\ []NeverRaises
    /\ [][ /\ LoopErrorEndsFolder
           /\ (pc = "page" /\ last = LabelFailed) => reqLog' = reqLog ]_vars

\* C28: after the first error raised inside the page loop of
\* _download_all_files_in_folder (listing request, page parse, file request or
\* file write), no further listing page and no further file of that folder is
\* requested in that call, which returns without raising
C28_LoopErrorEndsFolder == []NeverRaises /\ [][LoopErrorEndsFolder]_vars

\* the download of the first file of the first of two folders failed, nothing
\* more was asked of that folder, and the second folder was processed
C28_Witness ==
    /\ pc = "done" /\ result = "ok" /\ failed /\ Len(called) = 2
    /\ Len(FileFetches) = 2 /\ PagesAsked(called[1].id) = <<1, 1>>
    /\ Len(ListedFiles) = 1 /\ fs # EmptyFs /\ last.did = "downloaded"
    /\ \A q \in DOMAIN fs : ~Contains(q, MsC) \/ q = composite_dir(arg.year, state, called[1])

\* the file loop is about to process a file; its local path
AtFile == pc = "file" /\ fi <= Len(files) /\ i < n_files

CurPath == FilePath(composite_dir(arg.year, state, composite_folders[ci]), files[fi])

\* C29: with overwrite=False, a file whose destination or extraction directory
\* exists is skipped, and skipping it changes nothing in the local tree and
\* sends no request: the file is not rewritten, extracted or deleted, the
\* directory is not touched, whatever unzip is in this run and was in the run
\* that left them
C29_SkipLeavesTree ==
    [][ /\ ( /\ AtFile /\ ~cfg.overwrite
             /\ Exists(fs, CurPath) \/ Exists(fs, FolderName(CurPath)) ) =>
               (last'.did = "skipped" /\ last'.path = CurPath /\ fs' = fs /\ reqLog' = reqLog)
        /\ (AtFile /\ last'.did = "skipped") => (~cfg.overwrite /\ fs' = fs)
      ]_vars

\* an archive left by a run with extraction disabled was skipped, not
\* extracted, by a later run with extraction enabled
C29_Witness ==
    /\ rerun /\ ~before.cfg.unzip /\ cfg.unzip /\ ~cfg.overwrite
    /\ last.did = "skipped" /\ IsZipName(last.path)
    /\ Exists(fs, last.path) /\ fs[last.path] = "file"
    /\ ~Exists(fs, FolderName(last.path))
    /\ fs = before.fs

\* the items of the payload of the wanted type, in order
OfType(t) == SelectSeq(nIn.shared_folder.items, LAMBDA it : it.type = t)

\* C30: get_folders_from_response returns exactly the folders of the item
\* sequence and get_files_from_response exactly its files: no item of the
\* other type remains in the result
C30_PrototypeFilters ==
    /\ "folders" \in nOut.called =>
          /\ \A k \in 1..Len(nOut.folders) : nOut.folders[k].type = "folder"
          /\ nOut.folders = OfType("folder")
    /\ "files" \in nOut.called =>
          /\ \A k \in 1..Len(nOut.files) : nOut.files[k].type = "file"
          /\ nOut.files = OfType("file")

\* two files stand next to each other before a folder, and the second file
\* is in what get_folders_from_response returned
C30_AdjacentItemKept ==
    /\ "folders" \in nOut.called
    /\ Len(nIn.shared_folder.items) = 3
    /\ nIn.shared_folder.items[1].type = "file" /\ nIn.shared_folder.items[2].type = "file"
    /\ nIn.shared_folder.items[1] # nIn.shared_folder.items[2]
    /\ nIn.shared_folder.items[3].type = "folder"
    /\ nOut.folders = <<nIn.shared_folder.items[2], nIn.shared_folder.items[3]>>
====
